---- MODULE Spec2Model ----
(***************************************************************************)
(* Model of network-boot-server.py: the DHCP/PXE responder (DHCPServer)    *)
(* at the level of datagram bytes, and the image extractor                 *)
(* (PXEBootServer.extract_kernel_initrd) at the level of the external      *)
(* commands it runs.                                                       *)
(***************************************************************************)
EXTENDS Integers, Sequences, FiniteSets, TLC

VARIABLES
    lease_pool,  \* DHCPServer.lease_pool: hardware address -> address string
    next_ip,     \* DHCPServer.next_ip: the allocation cursor (an integer)
    running,     \* DHCPServer.running
    sock,        \* DHCPServer.sock: "None", "open" or "closed"
    dhcp_pc,     \* where the thread running DHCPServer.start is
    rx,          \* the datagram the current loop iteration received (<<>>: none)
    tx,          \* the datagram the current loop iteration sent (<<>>: none)
    allocated,   \* what _allocate_ip returned in the current iteration
    log_error    \* the current iteration logged at error level



----------------------------------------------------------------------------
(* Bounds *)

\* Number of addresses in [range_start, range_end] (101 in the source).
PoolSize == 2

----------------------------------------------------------------------------
(* Python values *)

\* None is the empty tuple and any other optional value v the 1-tuple <<v>>.
None == <<>>

Some(v) == <<v>>

\* data[k] for a bytes object, k < len(data)
Byte(data, k) == data[k + 1]

\* data[a:b] for a bytes object: truncated at the end of the buffer
Slice(data, a, b) == SubSeq(data, a + 1, IF b < Len(data) THEN b ELSE Len(data))

\* p[a:b] = v for a bytearray
SetSlice(p, a, b, v) == SubSeq(p, 1, a) \o v \o SubSeq(p, b + 1, Len(p))

Zeros(n) == [i \in 1..n |-> 0]

\* An address string "a.b.c.d"
IpStr(a, b, c, d) == [o1 |-> a, o2 |-> b, o3 |-> c, o4 |-> d]

\* socket.inet_aton: address string -> 4 bytes
inet_aton(ip) == <<ip.o1, ip.o2, ip.o3, ip.o4>>

\* socket.inet_ntoa: 4 bytes -> address string
inet_ntoa(b) == IpStr(b[1], b[2], b[3], b[4])

RECURSIVE AsciiDec(_)
\* str(n).encode('ascii') for n >= 0
AsciiDec(n) == IF n < 10 THEN <<48 + n>> ELSE AsciiDec(n \div 10) \o <<48 + (n % 10)>>

\* ip.encode('ascii') for an address string
IpAscii(ip) ==
    AsciiDec(ip.o1) \o <<46>> \o AsciiDec(ip.o2) \o <<46>> \o AsciiDec(ip.o3) \o <<46>> \o AsciiDec(ip.o4)

\* bootfile.encode('ascii') for the boot file names the server uses
EncodeAscii(s) ==
    CASE s = "grubx64.efi"  -> <<103, 114, 117, 98, 120, 54, 52, 46, 101, 102, 105>>
      [] s = "grubia32.efi" -> <<103, 114, 117, 98, 105, 97, 51, 50, 46, 101, 102, 105>>
      [] s = "lpxelinux.0"  -> <<108, 112, 120, 101, 108, 105, 110, 117, 120, 46, 48>>
      [] s = ""             -> <<>>

\* b'PXEClient'
PXEClient == <<80, 88, 69, 67, 108, 105, 101, 110, 116>>

----------------------------------------------------------------------------
(* Configuration *)

SERVER_IP == IpStr(172, 16, 172, 1)

DHCP_RANGE_START == IpStr(172, 16, 172, 100)

\* 172.16.172.200 in the source; the range is scaled down to PoolSize addresses
DHCP_RANGE_END == IpStr(172, 16, 172, 100 + PoolSize - 1)

NETMASK == IpStr(255, 255, 255, 0)

DHCPDISCOVER == 1

DHCPOFFER == 2

DHCPREQUEST == 3

DHCPACK == 5

----------------------------------------------------------------------------
(* DHCPServer: addresses as integers.  A 32-bit unsigned integer is kept as *)
(* two 16-bit limbs <<high, low>>.                                          *)

_ip_to_int(ip) == <<ip.o1 * 256 + ip.o2, ip.o3 * 256 + ip.o4>>

_int_to_ip(num) == IpStr(num[1] \div 256, num[1] % 256, num[2] \div 256, num[2] % 256)

\* num + 1
IntSucc(num) == IF num[2] = 65535 THEN <<num[1] + 1, 0>> ELSE <<num[1], num[2] + 1>>

\* a > b
IntGt(a, b) == a[1] > b[1] \/ (a[1] = b[1] /\ a[2] > b[2])

\* _allocate_ip without the lookup of an existing lease
AllocateAlwaysFresh(mac) ==
    LET ip == _int_to_ip(next_ip)
        n  == IntSucc(next_ip)
    IN [ip         |-> ip,
        lease_pool |-> [m \in DOMAIN lease_pool \cup {mac} |->
                           IF m = mac THEN ip ELSE lease_pool[m]],
        next_ip    |-> IF IntGt(n, _ip_to_int(DHCP_RANGE_END))
                           THEN _ip_to_int(DHCP_RANGE_START) ELSE n]

\* _allocate_ip that leaves the cursor where it is
AllocateNoAdvance(mac) ==
    IF mac \in DOMAIN lease_pool
        THEN [ip |-> lease_pool[mac], lease_pool |-> lease_pool, next_ip |-> next_ip]
        ELSE [ip         |-> _int_to_ip(next_ip),
              lease_pool |-> [m \in DOMAIN lease_pool \cup {mac} |->
                                 IF m = mac THEN _int_to_ip(next_ip) ELSE lease_pool[m]],
              next_ip    |-> next_ip]

\* _allocate_ip without the wrap-around
AllocateNoWrap(mac) ==
    IF mac \in DOMAIN lease_pool
        THEN [ip |-> lease_pool[mac], lease_pool |-> lease_pool, next_ip |-> next_ip]
        ELSE LET ip == _int_to_ip(next_ip)
             IN [ip         |-> ip,
                 lease_pool |-> [m \in DOMAIN lease_pool \cup {mac} |->
                                    IF m = mac THEN ip ELSE lease_pool[m]],
                 next_ip    |-> IntSucc(next_ip)]

\* _allocate_ip(mac): the address returned and the lease table and cursor it leaves
_allocate_ip(mac) ==
    IF mac \in DOMAIN lease_pool
        THEN [ip |-> lease_pool[mac], lease_pool |-> lease_pool, next_ip |-> next_ip]
        ELSE LET ip == _int_to_ip(next_ip)
                 n  == IntSucc(next_ip)
             IN [ip         |-> ip,
                 lease_pool |-> [m \in DOMAIN lease_pool \cup {mac} |->
                                    IF m = mac THEN ip ELSE lease_pool[m]],
                 next_ip    |-> IF IntGt(n, _ip_to_int(DHCP_RANGE_END))
                                    THEN _ip_to_int(DHCP_RANGE_START) ELSE n]

----------------------------------------------------------------------------
(* DHCPServer: classification and wire format *)

\* _get_bootfile_for_arch with the 64-bit EFI codes sent to the legacy loader
BootfileLegacyOnly(arch_code) == "lpxelinux.0"

\* _get_bootfile_for_arch(arch_code): arch_code is None or Some(code)
_get_bootfile_for_arch(arch_code) ==
    IF arch_code \in {Some(7), Some(9)} THEN "grubx64.efi"
    ELSE IF arch_code = Some(6) THEN "grubia32.efi"
    ELSE IF arch_code = Some(0) \/ arch_code = None THEN "lpxelinux.0"
    ELSE "lpxelinux.0"

\* Option bytes without the end option
BuildOptionsNoEnd(msg_type, bootfile) ==
    <<53, 1, msg_type>>
    \o <<54, 4>> \o inet_aton(SERVER_IP)
    \o <<51, 4, 0, 0, 14, 16>>
    \o <<1, 4>> \o inet_aton(NETMASK)
    \o <<3, 4>> \o inet_aton(SERVER_IP)
    \o <<6, 4>> \o inet_aton(SERVER_IP)
    \o <<43, 3, 6, 1, 10>>
    \o <<66, Len(IpAscii(SERVER_IP))>> \o IpAscii(SERVER_IP)
    \o <<67, Len(EncodeAscii(bootfile))>> \o EncodeAscii(bootfile)

\* The option bytes _build_dhcp_packet appends after the magic cookie
BuildOptions(msg_type, bootfile) ==
    LET tftp_server    == IpAscii(SERVER_IP)
        bootfile_bytes == EncodeAscii(bootfile)
        pxe_vendor_options == <<6, 1, 10>>
    IN <<53, 1, msg_type>>
       \o <<54, 4>> \o inet_aton(SERVER_IP)
       \o <<51, 4, 0, 0, 14, 16>>
       \o <<1, 4>> \o inet_aton(NETMASK)
       \o <<3, 4>> \o inet_aton(SERVER_IP)
       \o <<6, 4>> \o inet_aton(SERVER_IP)
       \o <<43, Len(pxe_vendor_options)>> \o pxe_vendor_options
       \o <<66, Len(tftp_server)>> \o tftp_server
       \o <<67, Len(bootfile_bytes)>> \o bootfile_bytes
       \o <<255>>

\* _build_dhcp_packet(transaction_id, client_mac, client_ip, msg_type, bootfile)
_build_dhcp_packet(transaction_id, client_mac, client_ip, msg_type, bootfile) ==
    LET boot_filename_bytes == EncodeAscii(bootfile) \o <<0>>
        p0  == Zeros(300)
        p1  == SetSlice(p0, 0, 4, <<2, 1, 6, 0>>)
        p2  == SetSlice(p1, 4, 8, transaction_id)
        p3  == SetSlice(p2, 8, 10, <<0, 0>>)
        p4  == SetSlice(p3, 10, 12, <<0, 0>>)
        p5  == SetSlice(p4, 12, 16, Zeros(4))
        p6  == SetSlice(p5, 16, 20, inet_aton(client_ip))
        p7  == SetSlice(p6, 20, 24, inet_aton(SERVER_IP))
        p8  == SetSlice(p7, 24, 28, Zeros(4))
        p9  == SetSlice(p8, 28, 34, client_mac)
        p10 == SetSlice(p9, 34, 44, Zeros(10))
        p11 == SetSlice(p10, 44, 108, Zeros(64))
        p12 == SetSlice(p11, 108, 108 + Len(boot_filename_bytes), boot_filename_bytes)
        p13 == SetSlice(p12, 108 + Len(boot_filename_bytes), 236,
                        Zeros(128 - Len(boot_filename_bytes)))
        p14 == SetSlice(p13, 236, 240, <<99, 130, 83, 99>>)
        options == BuildOptions(msg_type, bootfile)
        p15 == SetSlice(p14, 240, 240 + Len(options), options)
    IN Slice(p15, 0, 240 + Len(options))

\* The values _parse_dhcp_packet starts its option loop with
NoOptions == [msg_type |-> None, vendor_class |-> None, requested_ip |-> None,
              client_arch |-> None]

RECURSIVE ParseOptions(_, _, _)
\* The option loop of _parse_dhcp_packet from offset i: what it raised ("" if
\* nothing) and the options it had recognised
ParseOptions(data, i, acc) ==
    IF i >= Len(data) THEN [exc |-> "", opts |-> acc]
    ELSE LET option == Byte(data, i) IN
        IF option = 255 THEN [exc |-> "", opts |-> acc]
        ELSE IF option = 0 THEN ParseOptions(data, i + 1, acc)
        ELSE IF i + 1 >= Len(data) THEN [exc |-> "IndexError", opts |-> acc]
        ELSE LET option_len == Byte(data, i + 1) IN
            IF option = 53 THEN
                IF i + 2 >= Len(data) THEN [exc |-> "IndexError", opts |-> acc]
                ELSE ParseOptions(data, i + 2 + option_len,
                                  [acc EXCEPT !.msg_type = Some(Byte(data, i + 2))])
            ELSE IF option = 60 THEN
                ParseOptions(data, i + 2 + option_len,
                             [acc EXCEPT !.vendor_class = Some(Slice(data, i + 2, i + 2 + option_len))])
            ELSE IF option = 50 THEN
                IF Len(Slice(data, i + 2, i + 6)) # 4 THEN [exc |-> "OSError", opts |-> acc]
                ELSE ParseOptions(data, i + 2 + option_len,
                                  [acc EXCEPT !.requested_ip = Some(inet_ntoa(Slice(data, i + 2, i + 6)))])
            ELSE IF option = 93 /\ option_len >= 2 THEN
                IF i + 3 >= Len(data) THEN [exc |-> "IndexError", opts |-> acc]
                ELSE ParseOptions(data, i + 2 + option_len,
                                  [acc EXCEPT !.client_arch =
                                      Some(Byte(data, i + 2) * 256 + Byte(data, i + 3))])
            ELSE ParseOptions(data, i + 2 + option_len, acc)

\* _parse_dhcp_packet that accepts any magic cookie
ParseNoCookieCheck(data) ==
    IF Len(data) < 240 THEN [exc |-> "", value |-> None]
    ELSE LET r == ParseOptions(data, 240, NoOptions) IN
        IF r.exc # "" THEN [exc |-> r.exc, value |-> None]
        ELSE [exc |-> "",
              value |-> Some([transaction_id |-> Slice(data, 4, 8),
                              client_mac     |-> Slice(data, 28, 34),
                              msg_type       |-> r.opts.msg_type,
                              vendor_class   |-> r.opts.vendor_class,
                              requested_ip   |-> r.opts.requested_ip,
                              client_arch    |-> r.opts.client_arch])]

\* _parse_dhcp_packet(data): what it raised ("" if nothing) and what it returned
_parse_dhcp_packet(data) ==
    IF Len(data) < 240 THEN [exc |-> "", value |-> None]
    ELSE IF Slice(data, 236, 240) # <<99, 130, 83, 99>> THEN [exc |-> "", value |-> None]
    ELSE LET r == ParseOptions(data, 240, NoOptions) IN
        IF r.exc # "" THEN [exc |-> r.exc, value |-> None]
        ELSE [exc |-> "",
              value |-> Some([transaction_id |-> Slice(data, 4, 8),
                              client_mac     |-> Slice(data, 28, 34),
                              msg_type       |-> r.opts.msg_type,
                              vendor_class   |-> r.opts.vendor_class,
                              requested_ip   |-> r.opts.requested_ip,
                              client_arch    |-> r.opts.client_arch])]

\* bytes.decode('ascii', errors='ignore'): the bytes that are ASCII
DecodeAsciiIgnore(b) == SelectSeq(b, LAMBDA x : x < 128)

\* needle in haystack, for strings
Contains(haystack, needle) ==
    \E k \in 0..(Len(haystack) - Len(needle)) :
        SubSeq(haystack, k + 1, k + Len(needle)) = needle

\* is_pxe that takes every request for a PXE request
IsPxeAlways(vendor_class_bytes) == TRUE

\* is_pxe as DHCPServer.start computes it from the parsed vendor class
IsPxe(vendor_class_bytes) ==
    LET vendor == IF vendor_class_bytes # None /\ vendor_class_bytes[1] # <<>>
                      THEN DecodeAsciiIgnore(vendor_class_bytes[1]) ELSE <<>>
    IN vendor # <<>> /\ Contains(vendor, PXEClient)

----------------------------------------------------------------------------
(* Datagrams arriving on the server port *)

\* Hardware addresses of the clients: one more than the range has addresses
Macs == {<<2, 0, 0, 0, 0, k>> : k \in 1..(PoolSize + 1)}

\* A well-formed 240-byte BOOTP request header followed by the option bytes
Request(xid, mac, ciaddr, cookie, options) ==
    <<1, 1, 6, 0>> \o xid \o <<0, 0>> \o <<0, 0>> \o ciaddr \o Zeros(12)
    \o mac \o Zeros(10) \o Zeros(64) \o Zeros(128) \o cookie \o options

MagicCookie == <<99, 130, 83, 99>>

VendorPxe == <<60, 9>> \o PXEClient

\* vendor class "udhcp 1"
VendorOther == <<60, 7, 117, 100, 104, 99, 112, 32, 49>>

\* vendor class "PXEClient:7"
VendorPxeLonger == <<60, 11>> \o PXEClient \o <<58, 55>>

\* vendor class b'PXE\xffClient': the marker with a byte that is not ASCII in it
VendorPxeNonAscii == <<60, 10, 80, 88, 69, 255, 67, 108, 105, 101, 110, 116>>

\* Client classes: vendor-class and client-architecture options
ClassOptions ==
    { <<>>,
      VendorPxeLonger \o <<93, 2, 0, 7>>,
      VendorPxeNonAscii,
      VendorOther \o <<93, 2, 0, 9>>,
      VendorPxe,
      VendorPxe \o <<93, 2, 0, 0>>,
      VendorPxe \o <<93, 2, 0, 6>>,
      VendorPxe \o <<93, 2, 0, 7>>,
      VendorPxe \o <<93, 2, 0, 9>>,
      VendorPxe \o <<93, 2, 0, 10>>,
      VendorPxe \o <<93, 2, 0, 11>>,
      VendorPxe \o <<93, 2, 1, 7>>,
      VendorPxe \o <<93, 1, 9>> }

\* Option areas: DISCOVER and REQUEST of every client class, other and missing
\* message types, pad and end codes, a requested address, truncated options
OptionAreas ==
    { <<53, 1, t>> \o c \o <<255>> : t \in {DHCPDISCOVER, DHCPREQUEST}, c \in ClassOptions }
    \cup { <<53, 1, 8, 255>>,
           <<255>>,
           <<0, 53, 1, 1, 0, 255, 53, 1, 3>>,
           <<53, 1, 3, 50, 4, 172, 16, 172, 150>>,
           <<53, 1, 1, 60>>,
           <<53, 1, 3, 50, 4, 172, 16>>,
           <<53, 1, 1>> \o VendorPxe \o <<93, 2, 0>> }

\* Client-address fields: unset, and an address outside the range
Ciaddrs == {Zeros(4), <<172, 16, 172, 50>>}

Xid == <<222, 173, 190, 239>>

\* The transaction id a client picks: each client its own
XidOf(mac) == <<Xid[1], Xid[2], Xid[3], mac[6]>>

ValidHeaderDatagrams ==
    { Request(XidOf(m), m, ci, MagicCookie, o) : m \in Macs, ci \in Ciaddrs, o \in OptionAreas }

\* A datagram cut off inside the header, and datagrams with a wrong magic cookie
BadDatagrams ==
    { SubSeq(Request(XidOf(m), m, Zeros(4), MagicCookie, <<53, 1, 1, 255>>), 1, 239) : m \in Macs }
    \cup { <<1, 1, 6, 0>> }
    \cup { Request(XidOf(m), m, ci, <<99, 130, 83, 98>>, <<53, 1, t, 255>>) :
               m \in Macs, ci \in Ciaddrs, t \in {DHCPDISCOVER, DHCPREQUEST} }

Datagrams == ValidHeaderDatagrams \cup BadDatagrams

----------------------------------------------------------------------------
(* PXEBootServer.extract_kernel_initrd: the image, the host and the call *)

VARIABLES
    image,               \* the disk image: what fdisk, lvs, blkid, mount find in it
    lvm_installed,       \* the optional LVM tools (vgscan, vgchange, lvs) exist
    ex_pc,               \* where extract_kernel_initrd is
    partitions,          \* the local list `partitions` (candidates, in order)
    lvm_detected,        \* the local flag lvm_detected
    idx,                 \* position of the candidate loop in `partitions`
    mounted_partition,   \* the local mounted_partition (None or Some(device))
    nbd_attached,        \* the image is attached to /dev/nbd15
    mounts,              \* devices mounted at /mnt/pxeboot_temp, the latest last
    vg_active,           \* the image's volume group is active
    mount_point_exists,  \* /mnt/pxeboot_temp exists
    tftp_vmlinuz,        \* TFTP_ROOT/vmlinuz: OldFile or the file copied to it
    tftp_initrd,         \* TFTP_ROOT/initrd.img: OldFile or the file copied to it
    lvs_rc,              \* how `lvs` ended in this call
    vgan_rc,             \* how `vgchange -an` ended in this call
    failed               \* the unmount, deactivate and detach commands run with
                         \* check=False in this call that exited non-zero

exVars == <<image, lvm_installed, ex_pc, partitions, lvm_detected, idx, mounted_partition,
            nbd_attached, mounts, vg_active, mount_point_exists, tftp_vmlinuz, tftp_initrd,
            lvs_rc, vgan_rc, failed>>

\* Most partitions the partition table of an image lists
MaxParts == 2

\* Most logical volumes an image holds
MaxLvs == 1

\* A filesystem: its blkid TYPE, whether mount succeeds, whether it has a boot
\* directory, and the files of the directory searched (boot if it exists, else
\* the top level)
Fs(type, mountable, boot, files) ==
    [type |-> type, mountable |-> mountable, boot |-> boot, files |-> files]

FsSwap == Fs("swap", FALSE, FALSE, {})

\* an LVM physical volume or an unknown filesystem: mount fails
FsNoMount == Fs("LVM2_member", FALSE, FALSE, {})

FsData == Fs("ext4", TRUE, FALSE, {})

\* a root filesystem whose boot directory is an empty mount point
FsRootEmptyBoot == Fs("xfs", TRUE, TRUE, {})

\* a boot directory with an unversioned kernel and no initramfs
FsKernelOnly == Fs("ext4", TRUE, TRUE, {"vmlinuz"})

\* a root filesystem with kernels and initramfs images in its boot directory
FsRootBoot ==
    Fs("ext4", TRUE, TRUE, {"vmlinuz", "vmlinuz-5.14", "vmlinuz-6.1",
                            "initramfs-5.14.img", "initramfs-6.1.img", "initrd.img-6.1"})

\* a separate boot partition: the files are at its top level
FsBootPart == Fs("ext4", TRUE, FALSE, {"vmlinuz-6.1", "initrd.img-6.1"})

FsKinds == {FsSwap, FsNoMount, FsData, FsRootEmptyBoot, FsKernelOnly, FsRootBoot, FsBootPart}

\* What a logical volume holds
LvKinds == {FsSwap, FsData, FsRootEmptyBoot, FsRootBoot}

RECURSIVE SeqsUpTo(_, _)
\* The sequences over S of length at most n
SeqsUpTo(S, n) ==
    IF n = 0 THEN {<<>>}
    ELSE LET shorter == SeqsUpTo(S, n - 1)
         IN shorter \cup {Append(q, x) : q \in {r \in shorter : Len(r) = n - 1}, x \in S}

\* Images: the partitions fdisk lists, the device nodes the fallback probe finds
\* when it lists none, and the logical volumes
Images ==
    { [fdisk |-> f, nodes |-> <<>>, lvs |-> l] :
        f \in SeqsUpTo(FsKinds, MaxParts) \ {<<>>}, l \in SeqsUpTo(LvKinds, MaxLvs) }
    \cup { [fdisk |-> <<>>, nodes |-> n, lvs |-> l] :
        n \in {<<>>, <<FsRootBoot>>, <<FsData>>}, l \in SeqsUpTo(LvKinds, MaxLvs) }

\* The candidates: device names with their filesystems
Devices(kind, fss) == [i \in 1..Len(fss) |-> [dev |-> <<kind, i>>, fs |-> fss[i]]]

\* fnmatch of a file name against the glob patterns the extractor uses
Glob(files, pattern) ==
    CASE pattern = "vmlinuz-*"       -> files \cap {"vmlinuz-5.14", "vmlinuz-6.1"}
      [] pattern = "vmlinuz"         -> files \cap {"vmlinuz"}
      [] pattern = "initramfs-*.img" -> files \cap {"initramfs-5.14.img", "initramfs-6.1.img"}
      [] pattern = "initrd.img-*"    -> files \cap {"initrd.img-6.1"}
      [] pattern = "initrd-*"        -> files \cap {"initrd-6.1"}

\* The position of a file name in sorted() order
SortKey(name) ==
    CASE name = "initramfs-5.14.img" -> 1
      [] name = "initramfs-6.1.img"  -> 2
      [] name = "initrd-6.1"         -> 3
      [] name = "initrd.img-6.1"     -> 4
      [] name = "vmlinuz"            -> 5
      [] name = "vmlinuz-5.14"       -> 6
      [] name = "vmlinuz-6.1"        -> 7

\* sorted(files)[0]
SortedFirst(files) == CHOOSE f \in files : \A g \in files : SortKey(f) <= SortKey(g)

\* sorted(files)[-1]
SortedLast(files) == CHOOSE f \in files : \A g \in files : SortKey(g) <= SortKey(f)

\* kernel_files = glob('vmlinuz-*') or glob('vmlinuz')
KernelFiles(files) ==
    IF Glob(files, "vmlinuz-*") # {} THEN Glob(files, "vmlinuz-*") ELSE Glob(files, "vmlinuz")

\* initrd_files: the matches of the three patterns
InitrdFiles(files) ==
    Glob(files, "initramfs-*.img") \cup Glob(files, "initrd.img-*") \cup Glob(files, "initrd-*")

\* The filesystem of the device mounted last at the mount point
TopFs == partitions[idx].fs

\* What TFTP_ROOT holds under a name before the extraction writes it
OldFile == [dev |-> <<"host", 0>>, name |-> "old"]

\* The state before extract_kernel_initrd is called
ExNotCalled ==
    /\ image = [fdisk |-> <<>>, nodes |-> <<>>, lvs |-> <<>>]
    /\ lvm_installed = TRUE
    /\ ex_pc = "not_called"
    /\ partitions = <<>>
    /\ lvm_detected = FALSE
    /\ idx = 0
    /\ mounted_partition = None
    /\ nbd_attached = FALSE
    /\ mounts = <<>>
    /\ vg_active = FALSE
    /\ mount_point_exists = FALSE
    /\ tftp_vmlinuz = OldFile
    /\ tftp_initrd = OldFile
    /\ lvs_rc = "not_run"
    /\ vgan_rc = "not_run"
    /\ failed = {}

----------------------------------------------------------------------------
(* DHCPServer.start and DHCPServer.stop *)

VARIABLES
    stop_pc      \* where the caller of DHCPServer.stop is: "idle", "close", "done"

dhcpVars == <<lease_pool, next_ip, running, sock, dhcp_pc, rx, tx, allocated, log_error, stop_pc>>

\* main() and PXEBootServer.start / stop
VARIABLES
    is_root,          \* os.geteuid() == 0
    requirements_ok,  \* what check_requirements() returns
    qcow2_exists,     \* the image file exists
    main_pc,          \* where main() is
    srv_pc,           \* where PXEBootServer.start (and the stop() of its finally) is
    pending,          \* the exception start() re-raises once its finally is over
    exit_code,        \* the exit status of the process, None while it runs
    pxe_config,       \* pxelinux.cfg/default has been written
    grub_config,      \* grub.cfg has been written
    nbd_export,       \* the qemu-nbd export: "never", "running", "killed"
    tftp_server,      \* self.tftp_server and its thread: "None", "listening"
    http_server,      \* self.http_server: "None", "bound", "serving", "shut_down"
    dhcp_server       \* self.dhcp_server: "None", "created", "started" (its thread)

\* The UDP socket of the responder as its clients see it
VARIABLES
    arrived,          \* the datagrams delivered to the bound socket, oldest first
    sent              \* what each recvfrom of the running server was answered with,
                      \* in the order of the recvfrom calls (<<>>: nothing sent)

netVars == <<arrived, sent>>

\* Most datagrams the clients send while the server runs
MaxArrivals == 2

\* pycomms: the servers joined to the multicast group
VARIABLES
    cq,               \* per server, the datagrams queued in its rx socket, oldest first
    ignore,           \* per server, our_outputs_to_ignore
    n_sent,           \* per server, how many replies it has sent
    n_cmds,           \* how many commands the client has sent
    c_last            \* the last iteration: the server, the datagram, whether it replied

commsVars == <<cq, ignore, n_sent, n_cmds, c_last>>

\* The pycomms servers on the network
Servers == {"a", "b"}

\* Most commands the client sends
MaxCommands == 3

\* Most replies one server sends
MaxReplies == 4

\* No pycomms server has received anything
CommsNotStarted ==
    /\ cq = [s \in Servers |-> <<>>]
    /\ ignore = [s \in Servers |-> <<>>]
    /\ n_sent = [s \in Servers |-> 0]
    /\ n_cmds = 0
    /\ c_last = None

srvInputs == <<is_root, requirements_ok, qcow2_exists>>

srvFiles == <<pxe_config, grub_config>>

srvServices == <<nbd_export, tftp_server, http_server, dhcp_server>>

srvVars == <<netVars, srvInputs, main_pc, srv_pc, pending, exit_code, srvFiles, srvServices>>

vars == <<dhcpVars, exVars, srvVars, commsVars>>

\* The process before main() has run a statement
MainNotStarted ==
    /\ arrived = <<>>
    /\ sent = <<>>
    /\ is_root = TRUE
    /\ requirements_ok = TRUE
    /\ qcow2_exists = TRUE
    /\ main_pc = "geteuid"
    /\ srv_pc = "not_called"
    /\ pending = "none"
    /\ exit_code = None
    /\ pxe_config = FALSE
    /\ grub_config = FALSE
    /\ nbd_export = "never"
    /\ tftp_server = "None"
    /\ http_server = "None"
    /\ dhcp_server = "None"

\* client_has_ip that never sees an address
ClientHasIpNever(data) == FALSE

\* client_has_ip: the ciaddr field of the datagram is set
ClientHasIp(data) == Slice(data, 12, 16) # <<0, 0, 0, 0>>

\* One iteration of the receive loop on datagram `data`; send_ok: sendto succeeds.
\* The result: the reply sent, the lease table and cursor left, what
\* _allocate_ip returned, and whether an error was logged.
Iteration(data, send_ok) ==
    LET parsed == _parse_dhcp_packet(data)
        quiet  == [tx |-> <<>>, lease_pool |-> lease_pool, next_ip |-> next_ip,
                   allocated |-> None, log_error |-> FALSE]
    IN  IF parsed.exc # "" THEN [quiet EXCEPT !.log_error = running]
        ELSE IF parsed.value = None THEN quiet
        ELSE LET p          == parsed.value[1]
                 client_mac == p.client_mac
                 is_pxe     == IsPxe(p.vendor_class)
             IN
             IF p.msg_type = Some(DHCPDISCOVER) THEN
                 LET bootfile      == IF is_pxe THEN _get_bootfile_for_arch(p.client_arch) ELSE ""
                     client_has_ip == ClientHasIp(data)
                     a             == _allocate_ip(client_mac)
                     client_ip     == IF client_has_ip THEN inet_ntoa(Slice(data, 12, 16)) ELSE a.ip
                     response      == _build_dhcp_packet(p.transaction_id, client_mac, client_ip,
                                                         DHCPOFFER, bootfile)
                 IN [tx         |-> IF send_ok THEN response ELSE <<>>,
                     lease_pool |-> IF client_has_ip THEN lease_pool ELSE a.lease_pool,
                     next_ip    |-> IF client_has_ip THEN next_ip ELSE a.next_ip,
                     allocated  |-> IF client_has_ip THEN None ELSE Some(a.ip),
                     log_error  |-> ~send_ok]
             ELSE IF p.msg_type = Some(DHCPREQUEST) THEN
                 LET a         == _allocate_ip(client_mac)
                     client_ip == a.ip
                     bootfile  == IF is_pxe THEN _get_bootfile_for_arch(p.client_arch) ELSE ""
                     response  == _build_dhcp_packet(p.transaction_id, client_mac, client_ip,
                                                     DHCPACK, bootfile)
                 IN [tx         |-> IF send_ok THEN response ELSE <<>>,
                     lease_pool |-> a.lease_pool,
                     next_ip    |-> a.next_ip,
                     allocated  |-> Some(a.ip),
                     log_error  |-> ~send_ok]
             ELSE quiet

\* self.running = True
DhcpSetRunning ==
    /\ dhcp_pc = "unstarted"
    /\ running' = TRUE
    /\ dhcp_pc' = "socket"
    /\ UNCHANGED <<lease_pool, next_ip, sock, rx, tx, allocated, log_error, stop_pc, exVars, srvVars, commsVars>>

\* self.sock = socket.socket(...)
DhcpSocket ==
    /\ dhcp_pc = "socket"
    /\ sock' = "open"
    /\ dhcp_pc' = "bind"
    /\ UNCHANGED <<lease_pool, next_ip, running, rx, tx, allocated, log_error, stop_pc, exVars, srvVars, commsVars>>

\* setsockopt and bind: on a socket closed meanwhile they raise OSError, which
\* start() does not catch
DhcpBind ==
    /\ dhcp_pc = "bind"
    /\ dhcp_pc' = IF sock = "open" THEN "check" ELSE "raised"
    /\ UNCHANGED <<lease_pool, next_ip, running, sock, rx, tx, allocated, log_error, stop_pc, exVars, srvVars, commsVars>>

\* while self.running: the previous iteration, if any, is over
DhcpCheck ==
    /\ dhcp_pc = "check"
    /\ dhcp_pc' = IF running THEN "recv" ELSE "returned"
    /\ rx' = <<>>
    /\ tx' = <<>>
    /\ allocated' = None
    /\ log_error' = FALSE
    /\ UNCHANGED <<lease_pool, next_ip, running, sock, stop_pc, exVars, srvVars, commsVars>>

\* The loop body without its try/except: an exception leaves start()
HandlePacketUncaught(data, send_ok) ==
    /\ dhcp_pc = "recv"
    /\ sock = "open"
    /\ LET r == Iteration(data, send_ok) IN
        /\ rx' = data
        /\ tx' = r.tx
        /\ lease_pool' = r.lease_pool
        /\ next_ip' = r.next_ip
        /\ allocated' = r.allocated
        /\ log_error' = r.log_error
    /\ dhcp_pc' = IF _parse_dhcp_packet(data).exc # "" THEN "raised" ELSE "check"
    /\ UNCHANGED <<running, sock, stop_pc, exVars, srvVars, commsVars>>

\* A loop body that parses the datagram and never answers
HandlePacketNoReply(data, send_ok) ==
    /\ dhcp_pc = "recv"
    /\ sock = "open"
    /\ rx' = data
    /\ tx' = <<>>
    /\ allocated' = None
    /\ log_error' = FALSE
    /\ dhcp_pc' = "check"
    /\ UNCHANGED <<lease_pool, next_ip, running, sock, stop_pc, exVars, srvVars, commsVars>>

\* recvfrom returns `data` and the body of the loop runs on it
HandlePacket(data, send_ok) ==
    /\ dhcp_pc = "recv"
    /\ sock = "open"
    /\ LET r == Iteration(data, send_ok) IN
        /\ rx' = data
        /\ tx' = r.tx
        /\ lease_pool' = r.lease_pool
        /\ next_ip' = r.next_ip
        /\ allocated' = r.allocated
        /\ log_error' = r.log_error
    /\ dhcp_pc' = "check"
    /\ UNCHANGED <<running, sock, stop_pc, exVars, srvVars, commsVars>>

\* recvfrom on the closed socket raises; the loop's handler logs it if running
RecvError ==
    /\ dhcp_pc = "recv"
    /\ sock = "closed"
    /\ rx' = <<>>
    /\ tx' = <<>>
    /\ allocated' = None
    /\ log_error' = running
    /\ dhcp_pc' = "check"
    /\ UNCHANGED <<lease_pool, next_ip, running, sock, stop_pc, exVars, srvVars, commsVars>>

\* DHCPServer.stop: self.running = False
StopClearRunning ==
    /\ stop_pc = "idle"
    /\ running' = FALSE
    /\ stop_pc' = "close"
    /\ UNCHANGED <<lease_pool, next_ip, sock, dhcp_pc, rx, tx, allocated, log_error, exVars, srvVars, commsVars>>

\* DHCPServer.stop: if self.sock: self.sock.close()
StopCloseSock ==
    /\ stop_pc = "close"
    /\ sock' = IF sock = "None" THEN "None" ELSE "closed"
    /\ stop_pc' = "done"
    /\ UNCHANGED <<lease_pool, next_ip, running, dhcp_pc, rx, tx, allocated, log_error, exVars, srvVars, commsVars>>

\* DHCPServer.__init__ with the arguments start_dhcp_server passes
Init ==
    /\ CommsNotStarted
    /\ lease_pool = <<>>
    /\ next_ip = _ip_to_int(DHCP_RANGE_START)
    /\ running = FALSE
    /\ sock = "None"
    /\ dhcp_pc = "unstarted"
    /\ rx = <<>>
    /\ tx = <<>>
    /\ allocated = None
    /\ log_error = FALSE
    /\ stop_pc = "idle"
    /\ ExNotCalled
    /\ MainNotStarted

Next ==
    \/ DhcpSetRunning
    \/ DhcpSocket
    \/ DhcpBind
    \/ DhcpCheck
    \/ \E data \in Datagrams, send_ok \in BOOLEAN : HandlePacket(data, send_ok)
    \/ RecvError
    \/ StopClearRunning
    \/ StopCloseSock

Spec == Init /\ [][Next]_vars


----------------------------------------------------------------------------
(* PXEBootServer.extract_kernel_initrd, one external command a step.  `ok`  *)
(* is whether the command exits with status 0.                              *)

hostVars == <<nbd_attached, mounts, vg_active, mount_point_exists, tftp_vmlinuz, tftp_initrd>>

localVars == <<partitions, lvm_detected, idx, mounted_partition, lvs_rc, vgan_rc>>

\* The call begins
ExCall ==
    /\ ex_pc = "not_called"
    /\ ex_pc' = "modprobe"
    /\ UNCHANGED <<image, lvm_installed, hostVars, localVars, failed, dhcpVars, srvVars, commsVars>>

\* modprobe nbd max_part=16 (check=True)
ExModprobe(ok) ==
    /\ ex_pc = "modprobe"
    /\ ex_pc' = IF ok THEN "connect" ELSE "except_umount"
    /\ UNCHANGED <<image, lvm_installed, hostVars, localVars, failed, dhcpVars, srvVars, commsVars>>

\* qemu-nbd --connect=/dev/nbd15 (check=True)
ExConnect(ok) ==
    /\ ex_pc = "connect"
    /\ nbd_attached' = ok
    /\ ex_pc' = IF ok THEN "fdisk" ELSE "except_umount"
    /\ UNCHANGED <<image, lvm_installed, mounts, vg_active, mount_point_exists, tftp_vmlinuz,
                   tftp_initrd, localVars, failed, dhcpVars, srvVars, commsVars>>

\* fdisk -l, the fallback probe of the numbered device nodes, and the raise
\* when there is no partition
ExFdisk ==
    /\ ex_pc = "fdisk"
    /\ LET listed == Devices("p", image.fdisk)
           found  == IF listed # <<>> THEN listed ELSE Devices("p", image.nodes)
       IN /\ partitions' = found
          /\ ex_pc' = IF found = <<>> THEN "except_umount" ELSE "vgscan"
    /\ UNCHANGED <<image, lvm_installed, hostVars, lvm_detected, idx, mounted_partition,
                   lvs_rc, vgan_rc, failed, dhcpVars, srvVars, commsVars>>

\* vgscan --mknodes (check=False); a missing executable raises FileNotFoundError
ExVgscan ==
    /\ ex_pc = "vgscan"
    /\ ex_pc' = IF lvm_installed THEN "vgchange_ay" ELSE "except_umount"
    /\ UNCHANGED <<image, lvm_installed, hostVars, localVars, failed, dhcpVars, srvVars, commsVars>>

\* vgchange -ay (check=False): activates the volume group of the image
ExVgchangeAy(ok) ==
    /\ ex_pc = "vgchange_ay"
    /\ vg_active' = (ok /\ image.lvs # <<>>)
    /\ ex_pc' = "lvs"
    /\ UNCHANGED <<image, lvm_installed, nbd_attached, mounts, mount_point_exists, tftp_vmlinuz,
                   tftp_initrd, localVars, failed, dhcpVars, srvVars, commsVars>>

\* lvs --noheadings -o lv_path, and the logical volumes prepended
ExLvs(ok) ==
    /\ ex_pc = "lvs"
    /\ lvs_rc' = IF ok THEN "ok" ELSE "failed"
    /\ LET lv_paths == IF ok THEN Devices("lv", image.lvs) ELSE <<>>
       IN /\ lvm_detected' = (lv_paths # <<>>)
          /\ partitions' = lv_paths \o partitions
    /\ ex_pc' = "mkdir"
    /\ UNCHANGED <<image, lvm_installed, hostVars, idx, mounted_partition, vgan_rc, failed, dhcpVars, srvVars, commsVars>>

\* mount_point.mkdir(parents=True, exist_ok=True)
ExMkdir ==
    /\ ex_pc = "mkdir"
    /\ mount_point_exists' = TRUE
    /\ idx' = 1
    /\ ex_pc' = "probe"
    /\ UNCHANGED <<image, lvm_installed, nbd_attached, mounts, vg_active, tftp_vmlinuz,
                   tftp_initrd, partitions, lvm_detected, mounted_partition, lvs_rc, vgan_rc,
                   failed, dhcpVars, srvVars, commsVars>>

\* Path(partition).exists(): a logical volume has a node while its group is active
NodeExists(c) == c.dev[1] = "lv" => vg_active

\* A test that accepts whatever is mounted
AcceptedAlways(fs) == TRUE

\* The candidate is accepted once mounted: boot_dir.exists() or glob('vmlinuz-*')
Accepted(fs) == fs.boot \/ Glob(fs.files, "vmlinuz-*") # {}

\* One round of the candidate loop: blkid, mount, the test of the mounted
\* filesystem, and the umount (check=False) of a rejected candidate
ExProbe(umount_ok) ==
    /\ ex_pc = "probe"
    /\ idx <= Len(partitions)
    /\ LET c == partitions[idx] IN
        IF ~NodeExists(c) \/ c.fs.type = "swap" \/ ~c.fs.mountable
        THEN /\ idx' = idx + 1
             /\ UNCHANGED <<mounts, mounted_partition, ex_pc, failed>>
        ELSE IF Accepted(c.fs)
        THEN /\ mounts' = Append(mounts, c.dev)
             /\ mounted_partition' = Some(c.dev)
             /\ ex_pc' = "copy_kernel"
             /\ UNCHANGED <<idx, failed>>
        ELSE /\ mounts' = IF umount_ok THEN mounts ELSE Append(mounts, c.dev)
             /\ failed' = IF umount_ok THEN failed ELSE failed \cup {"umount_probe"}
             /\ idx' = idx + 1
             /\ UNCHANGED <<mounted_partition, ex_pc>>
    /\ UNCHANGED <<image, lvm_installed, nbd_attached, vg_active, mount_point_exists,
                   tftp_vmlinuz, tftp_initrd, partitions, lvm_detected, lvs_rc, vgan_rc, dhcpVars, srvVars, commsVars>>

\* The loop is over and mounted_partition is None: raise
ExNoBootSource ==
    /\ ex_pc = "probe"
    /\ idx > Len(partitions)
    /\ ex_pc' = "except_umount"
    /\ UNCHANGED <<image, lvm_installed, hostVars, localVars, failed, dhcpVars, srvVars, commsVars>>

\* The kernel: the last of the sorted matches is copied (cp, check=True);
\* no match raises FileNotFoundError
ExCopyKernel(ok) ==
    /\ ex_pc = "copy_kernel"
    /\ LET kernel_files == KernelFiles(TopFs.files) IN
        IF kernel_files # {} /\ ok
        THEN /\ tftp_vmlinuz' = [dev |-> partitions[idx].dev, name |-> SortedLast(kernel_files)]
             /\ ex_pc' = "copy_initrd"
        ELSE /\ ex_pc' = "except_umount"
             /\ UNCHANGED tftp_vmlinuz
    /\ UNCHANGED <<image, lvm_installed, nbd_attached, mounts, vg_active, mount_point_exists,
                   tftp_initrd, localVars, failed, dhcpVars, srvVars, commsVars>>

\* The initramfs: the last of the sorted matches of the three patterns is
\* copied (cp, check=True); no match raises FileNotFoundError
ExCopyInitrd(ok) ==
    /\ ex_pc = "copy_initrd"
    /\ LET initrd_files == InitrdFiles(TopFs.files) IN
        IF initrd_files # {} /\ ok
        THEN /\ tftp_initrd' = [dev |-> partitions[idx].dev, name |-> SortedLast(initrd_files)]
             /\ ex_pc' = "umount"
        ELSE /\ ex_pc' = "except_umount"
             /\ UNCHANGED tftp_initrd
    /\ UNCHANGED <<image, lvm_installed, nbd_attached, mounts, vg_active, mount_point_exists,
                   tftp_vmlinuz, localVars, failed, dhcpVars, srvVars, commsVars>>

\* umount of the mount point: the filesystem mounted last is unmounted
Unmounted(m) == IF m = <<>> THEN <<>> ELSE SubSeq(m, 1, Len(m) - 1)

\* umount /mnt/pxeboot_temp (check=True)
ExUmount(ok) ==
    /\ ex_pc = "umount"
    /\ mounts' = IF ok THEN Unmounted(mounts) ELSE mounts
    /\ ex_pc' = IF ok THEN "vgchange_an" ELSE "except_umount"
    /\ UNCHANGED <<image, lvm_installed, nbd_attached, vg_active, mount_point_exists,
                   tftp_vmlinuz, tftp_initrd, localVars, failed, dhcpVars, srvVars, commsVars>>

\* if lvm_detected: vgchange -an (check=False)
ExVgchangeAn(ok) ==
    /\ ex_pc = "vgchange_an"
    /\ IF lvm_detected
       THEN /\ vg_active' = (vg_active /\ ~ok)
            /\ vgan_rc' = IF ok THEN "ok" ELSE "failed"
       ELSE UNCHANGED <<vg_active, vgan_rc>>
    /\ ex_pc' = "disconnect"
    /\ UNCHANGED <<image, lvm_installed, nbd_attached, mounts, mount_point_exists, tftp_vmlinuz,
                   tftp_initrd, partitions, lvm_detected, idx, mounted_partition, lvs_rc, failed, dhcpVars, srvVars, commsVars>>

\* qemu-nbd --disconnect without check=True
ExDisconnectUnchecked(ok) ==
    /\ ex_pc = "disconnect"
    /\ nbd_attached' = (nbd_attached /\ ~ok)
    /\ ex_pc' = "rmdir"
    /\ UNCHANGED <<image, lvm_installed, mounts, vg_active, mount_point_exists, tftp_vmlinuz,
                   tftp_initrd, localVars, failed, dhcpVars, srvVars, commsVars>>

\* qemu-nbd --disconnect /dev/nbd15 (check=True)
ExDisconnect(ok) ==
    /\ ex_pc = "disconnect"
    /\ nbd_attached' = (nbd_attached /\ ~ok)
    /\ ex_pc' = IF ok THEN "rmdir" ELSE "except_umount"
    /\ UNCHANGED <<image, lvm_installed, mounts, vg_active, mount_point_exists, tftp_vmlinuz,
                   tftp_initrd, localVars, failed, dhcpVars, srvVars, commsVars>>

\* mount_point.rmdir(): OSError while a filesystem is mounted there; then the
\* function returns
ExRmdir ==
    /\ ex_pc = "rmdir"
    /\ mount_point_exists' = (mounts # <<>>)
    /\ ex_pc' = IF mounts = <<>> THEN "returned" ELSE "except_umount"
    /\ UNCHANGED <<image, lvm_installed, nbd_attached, mounts, vg_active, tftp_vmlinuz,
                   tftp_initrd, localVars, failed, dhcpVars, srvVars, commsVars>>

\* except Exception: umount (check=False)
ExceptUmount(ok) ==
    /\ ex_pc = "except_umount"
    /\ mounts' = IF ok THEN Unmounted(mounts) ELSE mounts
    /\ ex_pc' = "except_vgchange"
    /\ failed' = IF ok /\ mounts # <<>> THEN failed ELSE failed \cup {"umount"}
    /\ UNCHANGED <<image, lvm_installed, nbd_attached, vg_active, mount_point_exists,
                   tftp_vmlinuz, tftp_initrd, localVars, dhcpVars, srvVars, commsVars>>

\* except Exception: vgchange -an (check=False); a missing executable raises
\* FileNotFoundError out of the handler
ExceptVgchange(ok) ==
    /\ ex_pc = "except_vgchange"
    /\ IF lvm_installed
       THEN /\ vg_active' = (vg_active /\ ~ok)
            /\ vgan_rc' = IF ok THEN "ok" ELSE "failed"
            /\ ex_pc' = "except_disconnect"
       ELSE /\ ex_pc' = "raised"
            /\ UNCHANGED <<vg_active, vgan_rc>>
    /\ failed' = IF lvm_installed /\ ok THEN failed ELSE failed \cup {"vgchange"}
    /\ UNCHANGED <<image, lvm_installed, nbd_attached, mounts, mount_point_exists, tftp_vmlinuz,
                   tftp_initrd, partitions, lvm_detected, idx, mounted_partition, lvs_rc, dhcpVars, srvVars, commsVars>>

\* A handler that does not detach the image
ExceptDisconnectSkipped(ok) ==
    /\ ex_pc = "except_disconnect"
    /\ ex_pc' = "except_rmdir"
    /\ failed' = IF ok THEN failed ELSE failed \cup {"disconnect"}
    /\ UNCHANGED <<image, lvm_installed, nbd_attached, mounts, vg_active, mount_point_exists,
                   tftp_vmlinuz, tftp_initrd, localVars, dhcpVars, srvVars, commsVars>>

\* except Exception: qemu-nbd --disconnect (check=False)
ExceptDisconnect(ok) ==
    /\ ex_pc = "except_disconnect"
    /\ nbd_attached' = (nbd_attached /\ ~ok)
    /\ ex_pc' = "except_rmdir"
    /\ failed' = IF ok THEN failed ELSE failed \cup {"disconnect"}
    /\ UNCHANGED <<image, lvm_installed, mounts, vg_active, mount_point_exists, tftp_vmlinuz,
                   tftp_initrd, localVars, dhcpVars, srvVars, commsVars>>

\* except Exception: rmdir if the mount point exists, errors ignored; raise
ExceptRmdir ==
    /\ ex_pc = "except_rmdir"
    /\ mount_point_exists' = (mount_point_exists /\ mounts # <<>>)
    /\ ex_pc' = "raised"
    /\ UNCHANGED <<image, lvm_installed, nbd_attached, mounts, vg_active, tftp_vmlinuz,
                   tftp_initrd, localVars, failed, dhcpVars, srvVars, commsVars>>

\* Where the call is inside its except block
HandlerPositions == {"except_umount", "except_vgchange", "except_disconnect", "except_rmdir"}

\* How the call has ended when KeyboardInterrupt left it
Interrupted == {"interrupted", "interrupted_in_handler"}

\* KeyboardInterrupt is delivered during the call: no handler of the function
\* catches it. In the except block it replaces the exception being handled.
ExInterrupt ==
    /\ ex_pc \notin {"not_called", "returned", "raised"} \cup Interrupted
    /\ ex_pc' = IF ex_pc \in HandlerPositions THEN "interrupted_in_handler" ELSE "interrupted"
    /\ UNCHANGED <<image, lvm_installed, hostVars, localVars, failed, dhcpVars, srvVars, commsVars>>

\* A server constructed for an image, before start() runs the extraction
InitExtract ==
    /\ CommsNotStarted
    /\ lease_pool = <<>>
    /\ next_ip = _ip_to_int(DHCP_RANGE_START)
    /\ running = FALSE
    /\ sock = "None"
    /\ dhcp_pc = "unstarted"
    /\ rx = <<>>
    /\ tx = <<>>
    /\ allocated = None
    /\ log_error = FALSE
    /\ stop_pc = "idle"
    /\ image \in Images
    /\ lvm_installed \in BOOLEAN
    /\ ex_pc = "not_called"
    /\ partitions = <<>>
    /\ lvm_detected = FALSE
    /\ idx = 0
    /\ mounted_partition = None
    /\ nbd_attached = FALSE
    /\ mounts = <<>>
    /\ vg_active = FALSE
    /\ mount_point_exists = FALSE
    /\ tftp_vmlinuz = OldFile
    /\ tftp_initrd = OldFile
    /\ lvs_rc = "not_run"
    /\ vgan_rc = "not_run"
    /\ failed = {}
    /\ MainNotStarted

NextExtract ==
    \/ ExCall
    \/ \E ok \in BOOLEAN : ExModprobe(ok)
    \/ \E ok \in BOOLEAN : ExConnect(ok)
    \/ ExFdisk
    \/ ExVgscan
    \/ \E ok \in BOOLEAN : ExVgchangeAy(ok)
    \/ \E ok \in BOOLEAN : ExLvs(ok)
    \/ ExMkdir
    \/ \E umount_ok \in BOOLEAN : ExProbe(umount_ok)
    \/ ExNoBootSource
    \/ \E ok \in BOOLEAN : ExCopyKernel(ok)
    \/ \E ok \in BOOLEAN : ExCopyInitrd(ok)
    \/ \E ok \in BOOLEAN : ExUmount(ok)
    \/ \E ok \in BOOLEAN : ExVgchangeAn(ok)
    \/ \E ok \in BOOLEAN : ExDisconnect(ok)
    \/ ExRmdir
    \/ \E ok \in BOOLEAN : ExceptUmount(ok)
    \/ \E ok \in BOOLEAN : ExceptVgchange(ok)
    \/ \E ok \in BOOLEAN : ExceptDisconnect(ok)
    \/ ExceptRmdir
    \/ ExInterrupt

SpecExtract == InitExtract /\ [][NextExtract]_vars

----------------------------------------------------------------------------
(* main(), PXEBootServer.start and PXEBootServer.stop.  `ok` is whether the *)
(* step ends without raising an Exception.                                  *)

\* Where start() is inside its try block
TryPositions ==
    {"setup_network", "setup_directories", "copy_bootloader_files",
     "copy_uefi_bootloader_files", "extract_kernel_initrd", "create_pxe_config",
     "create_grub_config", "start_nbd_server", "sleep", "start_tftp_server",
     "start_http_server", "http_thread_start", "start_dhcp_server", "dhcp_thread_start",
     "running"}

\* Where the stop() of the finally clause is
StopPositions == {"stop_dhcp", "stop_http", "stop_nbd"}

\* if os.geteuid() != 0: sys.exit(1)
MainGeteuid ==
    /\ main_pc = "geteuid"
    /\ main_pc' = IF is_root THEN "check_requirements" ELSE "exited"
    /\ exit_code' = IF is_root THEN exit_code ELSE Some(1)
    /\ UNCHANGED <<commsVars, netVars, srvInputs, srv_pc, pending, srvFiles, srvServices, dhcpVars, exVars>>

\* if not check_requirements(): sys.exit(1)
MainCheckRequirements ==
    /\ main_pc = "check_requirements"
    /\ main_pc' = IF requirements_ok THEN "construct" ELSE "exited"
    /\ exit_code' = IF requirements_ok THEN exit_code ELSE Some(1)
    /\ UNCHANGED <<commsVars, netVars, srvInputs, srv_pc, pending, srvFiles, srvServices, dhcpVars, exVars>>

\* server = PXEBootServer(...): FileNotFoundError when the image is missing,
\* which main() does not catch; then server.start() is called
MainConstruct ==
    /\ main_pc = "construct"
    /\ main_pc' = IF qcow2_exists THEN "start" ELSE "exited"
    /\ srv_pc' = IF qcow2_exists THEN "setup_network" ELSE srv_pc
    /\ exit_code' = IF qcow2_exists THEN exit_code ELSE Some(1)
    /\ UNCHANGED <<commsVars, netVars, srvInputs, pending, srvFiles, srvServices, dhcpVars, exVars>>

\* A step of the try block that changes nothing but the position: on an
\* Exception the handler logs it and re-raises, and the finally calls stop()
Step(at, to, ok) ==
    /\ srv_pc = at
    /\ srv_pc' = IF ok THEN to ELSE "stop_dhcp"
    /\ pending' = IF ok THEN pending ELSE "Exception"

SrvSetupNetwork(ok) ==
    /\ Step("setup_network", "setup_directories", ok)
    /\ UNCHANGED <<commsVars, netVars, srvInputs, main_pc, exit_code, srvFiles, srvServices, dhcpVars, exVars>>

SrvSetupDirectories(ok) ==
    /\ Step("setup_directories", "copy_bootloader_files", ok)
    /\ UNCHANGED <<commsVars, netVars, srvInputs, main_pc, exit_code, srvFiles, srvServices, dhcpVars, exVars>>

SrvCopyBootloaderFiles(ok) ==
    /\ Step("copy_bootloader_files", "copy_uefi_bootloader_files", ok)
    /\ UNCHANGED <<commsVars, netVars, srvInputs, main_pc, exit_code, srvFiles, srvServices, dhcpVars, exVars>>

SrvCopyUefiBootloaderFiles(ok) ==
    /\ Step("copy_uefi_bootloader_files", "extract_kernel_initrd", ok)
    /\ UNCHANGED <<commsVars, netVars, srvInputs, main_pc, exit_code, srvFiles, srvServices, dhcpVars, exVars>>

\* self.extract_kernel_initrd(): the steps of the call
SrvExtract ==
    /\ srv_pc = "extract_kernel_initrd"
    /\ NextExtract

\* A start() that goes on after a failed extraction
SrvExtractExitIgnored ==
    /\ srv_pc = "extract_kernel_initrd"
    /\ ex_pc \in {"returned", "raised"} \cup Interrupted
    /\ srv_pc' = "create_pxe_config"
    /\ UNCHANGED <<commsVars, netVars, srvInputs, main_pc, pending, exit_code, srvFiles, srvServices, dhcpVars, exVars>>

\* The call is over: it returned, raised an Exception, or was left by
\* KeyboardInterrupt, which the handler of start() logs
SrvExtractExit ==
    /\ srv_pc = "extract_kernel_initrd"
    /\ ex_pc \in {"returned", "raised"} \cup Interrupted
    /\ srv_pc' = IF ex_pc = "returned" THEN "create_pxe_config" ELSE "stop_dhcp"
    /\ pending' = IF ex_pc = "raised" THEN "Exception" ELSE pending
    /\ UNCHANGED <<commsVars, netVars, srvInputs, main_pc, exit_code, srvFiles, srvServices, dhcpVars, exVars>>

SrvCreatePxeConfig(ok) ==
    /\ Step("create_pxe_config", "create_grub_config", ok)
    /\ pxe_config' = ok
    /\ UNCHANGED <<commsVars, netVars, srvInputs, main_pc, exit_code, grub_config, srvServices, dhcpVars, exVars>>

SrvCreateGrubConfig(ok) ==
    /\ Step("create_grub_config", "start_nbd_server", ok)
    /\ grub_config' = ok
    /\ UNCHANGED <<commsVars, netVars, srvInputs, main_pc, exit_code, pxe_config, srvServices, dhcpVars, exVars>>

\* qemu-nbd --persistent ... --fork (check=True)
SrvStartNbdServer(ok) ==
    /\ Step("start_nbd_server", "sleep", ok)
    /\ nbd_export' = IF ok THEN "running" ELSE nbd_export
    /\ UNCHANGED <<commsVars, netVars, srvInputs, main_pc, exit_code, srvFiles, tftp_server, http_server,
                   dhcp_server, dhcpVars, exVars>>

\* time.sleep(1)
SrvSleep ==
    /\ Step("sleep", "start_tftp_server", TRUE)
    /\ UNCHANGED <<commsVars, netVars, srvInputs, main_pc, exit_code, srvFiles, srvServices, dhcpVars, exVars>>

\* tftpy.TftpServer(TFTP_ROOT) and its daemon thread
SrvStartTftpServer(ok) ==
    /\ Step("start_tftp_server", "start_http_server", ok)
    /\ tftp_server' = IF ok THEN "listening" ELSE tftp_server
    /\ UNCHANGED <<commsVars, netVars, srvInputs, main_pc, exit_code, srvFiles, nbd_export, http_server,
                   dhcp_server, dhcpVars, exVars>>

\* self.http_server = HTTPServer(...): the socket is bound
SrvStartHttpServer(ok) ==
    /\ Step("start_http_server", "http_thread_start", ok)
    /\ http_server' = IF ok THEN "bound" ELSE http_server
    /\ UNCHANGED <<commsVars, netVars, srvInputs, main_pc, exit_code, srvFiles, nbd_export, tftp_server,
                   dhcp_server, dhcpVars, exVars>>

\* self.http_thread.start(): serve_forever runs
SrvHttpThreadStart ==
    /\ Step("http_thread_start", "start_dhcp_server", TRUE)
    /\ http_server' = "serving"
    /\ UNCHANGED <<commsVars, netVars, srvInputs, main_pc, exit_code, srvFiles, nbd_export, tftp_server,
                   dhcp_server, dhcpVars, exVars>>

\* self.dhcp_server = DHCPServer(...)
SrvStartDhcpServer ==
    /\ Step("start_dhcp_server", "dhcp_thread_start", TRUE)
    /\ dhcp_server' = "created"
    /\ UNCHANGED <<commsVars, netVars, srvInputs, main_pc, exit_code, srvFiles, nbd_export, tftp_server,
                   http_server, dhcpVars, exVars>>

\* dhcp_thread.start(); then the log lines and the wait loop
SrvDhcpThreadStart ==
    /\ Step("dhcp_thread_start", "running", TRUE)
    /\ dhcp_server' = "started"
    /\ UNCHANGED <<commsVars, netVars, srvInputs, main_pc, exit_code, srvFiles, nbd_export, tftp_server,
                   http_server, dhcpVars, exVars>>

\* KeyboardInterrupt in the try block outside the extraction: logged, then the
\* finally calls stop()
SrvInterrupt ==
    /\ srv_pc \in TryPositions \ {"extract_kernel_initrd"}
    /\ srv_pc' = "stop_dhcp"
    /\ UNCHANGED <<commsVars, netVars, srvInputs, main_pc, pending, exit_code, srvFiles, srvServices, dhcpVars,
                   exVars>>

\* Datagrams the clients send while the server runs
ServerDatagrams ==
    { Request(XidOf(m), m, ci, MagicCookie, <<53, 1, t>> \o VendorPxe \o <<255>>) :
        m \in {<<2, 0, 0, 0, 0, 1>>, <<2, 0, 0, 0, 0, 2>>}, ci \in Ciaddrs,
        t \in {DHCPDISCOVER, DHCPREQUEST} }

\* The datagrams in the socket's receive buffer: those no recvfrom has returned
Inbox == SubSeq(arrived, Len(sent) + 1, Len(arrived))

\* A client's datagram reaches the bound socket and is queued behind the others
SrvClientSend(data) ==
    /\ dhcp_server = "started"
    /\ main_pc # "exited"
    /\ sock = "open"
    /\ dhcp_pc \in {"check", "recv"}
    /\ Len(arrived) < MaxArrivals
    /\ arrived' = Append(arrived, data)
    /\ UNCHANGED <<commsVars, sent, srvInputs, main_pc, srv_pc, pending, exit_code, srvFiles, srvServices,
                   dhcpVars, exVars>>

\* A recvfrom that returns the newest datagram of the buffer
SrvRecvNewest(send_ok) ==
    /\ dhcp_pc = "recv"
    /\ sock = "open"
    /\ Inbox # <<>>
    /\ LET data == Inbox[Len(Inbox)]
           r    == Iteration(data, send_ok) IN
        /\ rx' = data
        /\ tx' = r.tx
        /\ lease_pool' = r.lease_pool
        /\ next_ip' = r.next_ip
        /\ allocated' = r.allocated
        /\ log_error' = r.log_error
        /\ sent' = Append(sent, r.tx)
    /\ dhcp_pc' = "check"
    /\ UNCHANGED <<running, sock, stop_pc, exVars, commsVars, arrived, srvInputs, main_pc, srv_pc, pending,
                   exit_code, srvFiles, srvServices>>

\* recvfrom returns the oldest datagram of the buffer and the body of the loop
\* runs on it, up to its sendto
SrvRecv(send_ok) ==
    /\ dhcp_pc = "recv"
    /\ sock = "open"
    /\ Inbox # <<>>
    /\ LET data == Head(Inbox)
           r    == Iteration(data, send_ok) IN
        /\ rx' = data
        /\ tx' = r.tx
        /\ lease_pool' = r.lease_pool
        /\ next_ip' = r.next_ip
        /\ allocated' = r.allocated
        /\ log_error' = r.log_error
        /\ sent' = Append(sent, r.tx)
    /\ dhcp_pc' = "check"
    /\ UNCHANGED <<running, sock, stop_pc, exVars, commsVars, arrived, srvInputs, main_pc, srv_pc, pending,
                   exit_code, srvFiles, srvServices>>

\* The daemon thread of the responder: DHCPServer.start
SrvDhcpThread ==
    /\ dhcp_server = "started"
    /\ main_pc # "exited"
    /\ \/ DhcpSetRunning
       \/ DhcpSocket
       \/ DhcpBind
       \/ DhcpCheck
       \/ \E send_ok \in BOOLEAN : SrvRecv(send_ok)
       \/ RecvError

\* stop(): if self.dhcp_server: self.dhcp_server.stop(), a step at a time
SrvStopDhcp ==
    /\ srv_pc = "stop_dhcp"
    /\ dhcp_server # "None"
    /\ StopClearRunning \/ StopCloseSock

\* self.sock.close() raises OSError: stop() has no handler, the exception
\* leaves it and start()
SrvStopDhcpRaises ==
    /\ srv_pc = "stop_dhcp"
    /\ dhcp_server # "None"
    /\ stop_pc = "close"
    /\ sock = "open"
    /\ sock' = "closed"
    /\ stop_pc' = "done"
    /\ srv_pc' = "raised"
    /\ UNCHANGED <<lease_pool, next_ip, running, dhcp_pc, rx, tx, allocated, log_error,
                   commsVars, netVars, srvInputs, main_pc, pending, exit_code, srvFiles, srvServices,
                   exVars>>

\* A stop() that goes on to the HTTP server without stopping the responder
SrvStopDhcpSkipped ==
    /\ srv_pc = "stop_dhcp"
    /\ srv_pc' = "stop_http"
    /\ UNCHANGED <<commsVars, netVars, srvInputs, main_pc, pending, exit_code, srvFiles, srvServices, dhcpVars,
                   exVars>>

\* self.dhcp_server.stop() has returned, or self.dhcp_server is None
SrvStopDhcpDone ==
    /\ srv_pc = "stop_dhcp"
    /\ dhcp_server = "None" \/ stop_pc = "done"
    /\ srv_pc' = "stop_http"
    /\ UNCHANGED <<commsVars, netVars, srvInputs, main_pc, pending, exit_code, srvFiles, srvServices, dhcpVars,
                   exVars>>

\* if self.http_server: self.http_server.shutdown(), which waits for
\* serve_forever to end and so never returns when it was never started
SrvStopHttp ==
    /\ srv_pc = "stop_http"
    /\ http_server # "bound"
    /\ http_server' = IF http_server = "serving" THEN "shut_down" ELSE http_server
    /\ srv_pc' = "stop_nbd"
    /\ UNCHANGED <<commsVars, netVars, srvInputs, main_pc, pending, exit_code, srvFiles, nbd_export, tftp_server,
                   dhcp_server, dhcpVars, exVars>>

\* stop_nbd_server(): pkill -9 qemu-nbd (check=False); stop() returns and
\* start() returns, or re-raises the pending exception
SrvStopNbd ==
    /\ srv_pc = "stop_nbd"
    /\ nbd_export' = IF nbd_export = "running" THEN "killed" ELSE nbd_export
    /\ srv_pc' = IF pending = "Exception" THEN "raised" ELSE "returned"
    /\ UNCHANGED <<commsVars, netVars, srvInputs, main_pc, pending, exit_code, srvFiles, tftp_server, http_server,
                   dhcp_server, dhcpVars, exVars>>

\* KeyboardInterrupt while stop() runs: it leaves stop() and start()
SrvStopInterrupt ==
    /\ srv_pc \in StopPositions
    /\ srv_pc' = "interrupted"
    /\ UNCHANGED <<commsVars, netVars, srvInputs, main_pc, pending, exit_code, srvFiles, srvServices, dhcpVars,
                   exVars>>

\* server.start() is over: main() returns (status 0), or the interpreter ends
\* on the uncaught exception (status 1) or KeyboardInterrupt (status 130)
MainExit ==
    /\ main_pc = "start"
    /\ srv_pc \in {"returned", "raised", "interrupted"}
    /\ main_pc' = "exited"
    /\ exit_code' = Some(CASE srv_pc = "returned" -> 0
                           [] srv_pc = "raised" -> 1
                           [] srv_pc = "interrupted" -> 130)
    /\ UNCHANGED <<commsVars, netVars, srvInputs, srv_pc, pending, srvFiles, srvServices, dhcpVars, exVars>>

\* Images the server is started on: a bootable partition, a bootable logical
\* volume, a boot directory without a kernel, no partition
ServerImages ==
    { [fdisk |-> <<FsRootBoot>>, nodes |-> <<>>, lvs |-> <<>>],
      [fdisk |-> <<FsNoMount>>, nodes |-> <<>>, lvs |-> <<FsRootBoot>>],
      [fdisk |-> <<FsRootEmptyBoot>>, nodes |-> <<>>, lvs |-> <<>>],
      [fdisk |-> <<>>, nodes |-> <<>>, lvs |-> <<>>] }

\* The process is started
InitServer ==
    /\ CommsNotStarted
    /\ lease_pool = <<>>
    /\ next_ip = _ip_to_int(DHCP_RANGE_START)
    /\ running = FALSE
    /\ sock = "None"
    /\ dhcp_pc = "unstarted"
    /\ rx = <<>>
    /\ tx = <<>>
    /\ allocated = None
    /\ log_error = FALSE
    /\ stop_pc = "idle"
    /\ image \in ServerImages
    /\ lvm_installed \in BOOLEAN
    /\ ex_pc = "not_called"
    /\ partitions = <<>>
    /\ lvm_detected = FALSE
    /\ idx = 0
    /\ mounted_partition = None
    /\ nbd_attached = FALSE
    /\ mounts = <<>>
    /\ vg_active = FALSE
    /\ mount_point_exists = FALSE
    /\ tftp_vmlinuz = OldFile
    /\ tftp_initrd = OldFile
    /\ lvs_rc = "not_run"
    /\ vgan_rc = "not_run"
    /\ failed = {}
    /\ arrived = <<>>
    /\ sent = <<>>
    /\ is_root \in BOOLEAN
    /\ requirements_ok \in BOOLEAN
    /\ qcow2_exists \in BOOLEAN
    /\ main_pc = "geteuid"
    /\ srv_pc = "not_called"
    /\ pending = "none"
    /\ exit_code = None
    /\ pxe_config = FALSE
    /\ grub_config = FALSE
    /\ nbd_export = "never"
    /\ tftp_server = "None"
    /\ http_server = "None"
    /\ dhcp_server = "None"

NextServer ==
    \/ \E data \in ServerDatagrams : SrvClientSend(data)
    \/ MainGeteuid
    \/ MainCheckRequirements
    \/ MainConstruct
    \/ \E ok \in BOOLEAN : SrvSetupNetwork(ok)
    \/ \E ok \in BOOLEAN : SrvSetupDirectories(ok)
    \/ \E ok \in BOOLEAN : SrvCopyBootloaderFiles(ok)
    \/ \E ok \in BOOLEAN : SrvCopyUefiBootloaderFiles(ok)
    \/ SrvExtract
    \/ SrvExtractExit
    \/ \E ok \in BOOLEAN : SrvCreatePxeConfig(ok)
    \/ \E ok \in BOOLEAN : SrvCreateGrubConfig(ok)
    \/ \E ok \in BOOLEAN : SrvStartNbdServer(ok)
    \/ SrvSleep
    \/ \E ok \in BOOLEAN : SrvStartTftpServer(ok)
    \/ \E ok \in BOOLEAN : SrvStartHttpServer(ok)
    \/ SrvHttpThreadStart
    \/ SrvStartDhcpServer
    \/ SrvDhcpThreadStart
    \/ SrvInterrupt
    \/ SrvDhcpThread
    \/ SrvStopDhcp
    \/ SrvStopDhcpRaises
    \/ SrvStopDhcpDone
    \/ SrvStopHttp
    \/ SrvStopNbd
    \/ SrvStopInterrupt
    \/ MainExit

SpecServer == InitServer /\ [][NextServer]_vars

----------------------------------------------------------------------------
(* Reading a reply as a client does *)

Yiaddr(p) == Slice(p, 16, 20)

\* The boot-filename header field holding `s`, null-terminated and zero-padded
FileField(s) == EncodeAscii(s) \o Zeros(128 - Len(EncodeAscii(s)))

RECURSIVE FindOption(_, _, _)
\* The value of the first option `code` at or after offset i, None if absent
FindOption(p, i, code) ==
    IF i + 1 >= Len(p) \/ Byte(p, i) = 255 THEN None
    ELSE IF Byte(p, i) = code THEN Some(Slice(p, i + 2, i + 2 + Byte(p, i + 1)))
    ELSE FindOption(p, i + 2 + Byte(p, i + 1), code)

ReplyOption(p, code) == FindOption(p, 240, code)

\* The step is an iteration of the receive loop on a datagram
Handled == dhcp_pc = "recv" /\ dhcp_pc' = "check" /\ rx' # <<>>

InRange(ip) ==
    /\ ~IntGt(_ip_to_int(DHCP_RANGE_START), _ip_to_int(ip))
    /\ ~IntGt(_ip_to_int(ip), _ip_to_int(DHCP_RANGE_END))

\* Option areas of well-formed DISCOVER packets
DiscoverAreas ==
    { <<53, 1, DHCPDISCOVER>> \o c \o <<255>> : c \in ClassOptions }
    \cup { <<0, 53, 1, 1, 0, 255, 53, 1, 3>> }

\* Option areas of DISCOVER packets that end in a truncated option
TruncatedDiscoverAreas == { <<53, 1, 1, 60>>, <<53, 1, 1>> \o VendorPxe \o <<93, 2, 0>> }

\* Option areas of well-formed REQUEST packets
RequestAreas ==
    { <<53, 1, DHCPREQUEST>> \o c \o <<255>> : c \in ClassOptions }
    \cup { <<53, 1, 3, 50, 4, 172, 16, 172, 150>> }

NonZeroCiaddrs == Ciaddrs \ {Zeros(4)}

Packets(cis, areas) == { Request(XidOf(m), m, ci, MagicCookie, o) : m \in Macs, ci \in cis, o \in areas }

----------------------------------------------------------------------------
(* Claims *)

\* C1: sticky allocation. No step changes or removes an entry of lease_pool, and
\* every _allocate_ip(A) returns the entry of A: the entry A already had, if it
\* had one.
C1_StickyAllocation ==
    [][ /\ \A m \in DOMAIN lease_pool :
              m \in DOMAIN lease_pool' /\ lease_pool'[m] = lease_pool[m]
        /\ (Handled /\ allocated' # None) =>
              LET mac == Slice(rx', 28, 34) IN
              /\ mac \in DOMAIN lease_pool'
              /\ allocated' = Some(lease_pool'[mac])
              /\ (mac \in DOMAIN lease_pool => allocated' = Some(lease_pool[mac])) ]_vars

\* C1 witness: every client holds a lease and _allocate_ip has just returned
\* range_end, which the latest new lease (range_start, after the wrap) is not:
\* a repeated allocation.
C1_Witness ==
    /\ Cardinality(DOMAIN lease_pool) = PoolSize + 1
    /\ allocated = Some(DHCP_RANGE_END)

\* C2: every address _allocate_ip returns, and every address in the lease table,
\* lies in [range_start, range_end], also with more clients than addresses.
C2_AllocatedInRange ==
    /\ allocated # None => InRange(allocated[1])
    /\ \A m \in DOMAIN lease_pool : InRange(lease_pool[m])

\* C2 witness: an allocation with more leases than the range has addresses.
C2_Witness ==
    /\ Cardinality(DOMAIN lease_pool) > PoolSize
    /\ allocated # None

\* C3: wrap-around. An allocation for a new hardware address returns the address
\* at the cursor; when that address is range_end the cursor is left at
\* range_start; and no other step moves the cursor. So the next new hardware
\* address after range_end receives range_start.
C3_WrapAround ==
    [][ IF DOMAIN lease_pool' # DOMAIN lease_pool
        THEN /\ allocated' = Some(_int_to_ip(next_ip))
             /\ allocated' = Some(DHCP_RANGE_END) => next_ip' = _ip_to_int(DHCP_RANGE_START)
             /\ allocated' # Some(DHCP_RANGE_END) => next_ip' = IntSucc(next_ip)
        ELSE next_ip' = next_ip ]_vars

\* C3 witness: after the wrap two hardware addresses hold range_start, and the
\* allocation that has just returned it left the cursor one past range_start.
C3_Witness ==
    /\ allocated = Some(DHCP_RANGE_START)
    /\ \E m1, m2 \in DOMAIN lease_pool :
          m1 # m2 /\ lease_pool[m1] = DHCP_RANGE_START /\ lease_pool[m2] = DHCP_RANGE_START
    /\ next_ip = IntSucc(_ip_to_int(DHCP_RANGE_START))

\* C4: a datagram shorter than 240 bytes, or whose bytes 236..239 are not the
\* magic cookie, gets no reply and leaves lease_pool and next_ip unchanged.
C4_MalformedDropped ==
    [][ (Handled /\ (Len(rx') < 240 \/ Slice(rx', 236, 240) # <<99, 130, 83, 99>>)) =>
            /\ tx' = <<>>
            /\ lease_pool' = lease_pool
            /\ next_ip' = next_ip
            /\ allocated' = None ]_vars

\* C4 witness: a full-length DISCOVER with a wrong cookie has been handled while
\* leases exist.
C4_Witness ==
    /\ Len(rx) >= 240
    /\ Slice(rx, 236, 240) # <<99, 130, 83, 99>>
    /\ Byte(rx, 242) = DHCPDISCOVER
    /\ lease_pool # <<>>
    /\ dhcp_pc = "check"

\* C5: the OFFER for a DISCOVER with vendor class "PXEClient" and client
\* architecture 0x0009 carries "grubx64.efi" in the boot-filename header field
\* (offset 108) and in option 67.
C5_Efi64Bootfile ==
    (rx \in Packets(Ciaddrs, {<<53, 1, 1>> \o VendorPxe \o <<93, 2, 0, 9>> \o <<255>>}) /\ tx # <<>>) =>
        /\ ReplyOption(tx, 53) = Some(<<DHCPOFFER>>)
        /\ Slice(tx, 108, 236) = FileField("grubx64.efi")
        /\ ReplyOption(tx, 67) = Some(EncodeAscii("grubx64.efi"))

\* C5 witness: such a DISCOVER has been answered.
C5_Witness ==
    /\ rx \in Packets(Ciaddrs, {<<53, 1, 1>> \o VendorPxe \o <<93, 2, 0, 9>> \o <<255>>})
    /\ tx # <<>>

\* C6 as stated: the OFFER for a DISCOVER with no vendor-class and no
\* client-architecture option carries "lpxelinux.0" in the boot-filename field.
C6_Original ==
    (rx \in Packets(Ciaddrs, {<<53, 1, 1, 255>>}) /\ tx # <<>>) =>
        Slice(tx, 108, 236) = FileField("lpxelinux.0")

\* C6 amended: for a DISCOVER with no client-architecture option, the OFFER's
\* boot-filename field is "lpxelinux.0" when the vendor class contains
\* "PXEClient", and it is empty (as is option 67) when there is no vendor class.
C6_NoArchBootfile ==
    /\ (rx \in Packets(Ciaddrs, {<<53, 1, 1, 255>>}) /\ tx # <<>>) =>
          /\ ReplyOption(tx, 53) = Some(<<DHCPOFFER>>)
          /\ Slice(tx, 108, 236) = Zeros(128)
          /\ ReplyOption(tx, 67) = Some(<<>>)
    /\ (rx \in Packets(Ciaddrs, {<<53, 1, 1>> \o VendorPxe \o <<255>>}) /\ tx # <<>>) =>
          /\ ReplyOption(tx, 53) = Some(<<DHCPOFFER>>)
          /\ Slice(tx, 108, 236) = FileField("lpxelinux.0")

\* C6 witness: a DISCOVER without vendor class and architecture has been answered.
C6_Witness ==
    /\ rx \in Packets(Ciaddrs, {<<53, 1, 1, 255>>})
    /\ tx # <<>>

\* C7: handling a DISCOVER whose client-address field is non-zero leaves
\* lease_pool and next_ip unchanged, and the OFFER's your-address field is that
\* client address; a well-formed one is answered unless sending fails.
C7_DiscoverProxy ==
    [][ (Handled /\ rx' \in Packets(NonZeroCiaddrs, DiscoverAreas \cup TruncatedDiscoverAreas)) =>
            /\ lease_pool' = lease_pool
            /\ next_ip' = next_ip
            /\ tx' # <<>> => (Yiaddr(tx') = Slice(rx', 12, 16)
                              /\ ReplyOption(tx', 53) = Some(<<DHCPOFFER>>))
            /\ (rx' \in Packets(NonZeroCiaddrs, DiscoverAreas) /\ tx' = <<>>) => log_error' ]_vars

\* C7 witness: an OFFER for such a DISCOVER from a hardware address without a
\* lease, while another one holds a lease.
C7_Witness ==
    /\ rx \in Packets(NonZeroCiaddrs, DiscoverAreas)
    /\ tx # <<>>
    /\ Slice(rx, 28, 34) \notin DOMAIN lease_pool
    /\ lease_pool # <<>>

\* C8 as stated: a DISCOVER or REQUEST with a non-zero client-address field that
\* gets a reply consumes no address, and the reply offers the address of the
\* request.
C8_Original ==
    [][ (Handled /\ tx' # <<>>
         /\ rx' \in Packets(NonZeroCiaddrs, DiscoverAreas \cup RequestAreas)) =>
            /\ lease_pool' = lease_pool
            /\ next_ip' = next_ip
            /\ Yiaddr(tx') = Slice(rx', 12, 16) ]_vars

\* C9: no per-packet error ends the receive loop. An iteration that logged an
\* error (parsing, sending or receiving failed) returns to the loop test with
\* the running flag and the socket as they were, and in every state where the
\* loop is receiving, whatever came before, a well-formed DISCOVER or REQUEST is
\* answered with an OFFER or an ACK unless sending it fails.
C9_LoopSurvivesErrors ==
    [][ /\ (dhcp_pc = "recv" /\ log_error') =>
              (dhcp_pc' = "check" /\ running' = running /\ sock' = sock)
        /\ (dhcp_pc = "recv" /\ dhcp_pc' # "recv") => dhcp_pc' = "check"
        /\ (Handled /\ ~log_error'
            /\ rx' \in Packets(Ciaddrs, DiscoverAreas \cup RequestAreas)) =>
              ReplyOption(tx', 53) \in {Some(<<DHCPOFFER>>), Some(<<DHCPACK>>)} ]_vars

\* C9 witness: an iteration failed on a truncated option, was logged, and the
\* thread is back at the loop test, still running.
C9_Witness ==
    /\ rx \in Packets(Ciaddrs, TruncatedDiscoverAreas)
    /\ log_error
    /\ running
    /\ dhcp_pc = "check"

----------------------------------------------------------------------------
(* The exits of extract_kernel_initrd *)

\* Nothing mounted at the mount point, the image detached, the mount point removed
CleanExit == mounts = <<>> /\ ~nbd_attached /\ ~mount_point_exists

\* The call raised after a candidate was accepted that holds no kernel
NoKernelFailure ==
    /\ ex_pc = "raised"
    /\ mounted_partition # None
    /\ KernelFiles(partitions[idx].fs.files) = {}

\* The commands of the except block (umount, vgchange -an, qemu-nbd --disconnect)
HandlerCommands == {"umount", "vgchange", "disconnect"}

C12_Original == ex_pc \in Interrupted => (~nbd_attached /\ mounts = <<>>)

----------------------------------------------------------------------------
(* The order of start-up and shutdown *)

\* DHCPServer.stop() has been called on the responder and has returned
ResponderStopped == stop_pc = "done"

\* C13: the export is started only after the extraction has returned and both
\* menu files are written; TFTP only after the export, HTTP only after TFTP,
\* the responder only after HTTP serves; and start() is at a step only when
\* the steps before it are done.
C13_StartupOrder ==
    /\ nbd_export # "never" => (ex_pc = "returned" /\ pxe_config /\ grub_config)
    /\ tftp_server # "None" => nbd_export # "never"
    /\ http_server # "None" => tftp_server # "None"
    /\ dhcp_server # "None" => http_server \in {"serving", "shut_down"}
    /\ srv_pc \in {"create_pxe_config", "create_grub_config", "start_nbd_server"} =>
          (ex_pc = "returned" /\ nbd_export = "never")
    /\ srv_pc \in {"sleep", "start_tftp_server"} => (nbd_export = "running" /\ tftp_server = "None")
    /\ srv_pc = "start_http_server" => (tftp_server = "listening" /\ http_server = "None")
    /\ srv_pc = "start_dhcp_server" => (http_server = "serving" /\ dhcp_server = "None")

\* C13 witness: all four services have been started and start() waits.
C13_Witness ==
    /\ srv_pc = "running"
    /\ nbd_export = "running"
    /\ tftp_server = "listening"
    /\ http_server = "serving"
    /\ dhcp_server = "started"

\* C14: in stop(), the HTTP server is shut down only after the responder's
\* stop() has returned (if there is a responder), and the export is
\* terminated only after the HTTP server no longer serves.
C14_ShutdownOrder ==
    /\ (srv_pc \in {"stop_http", "stop_nbd"} \/ http_server = "shut_down" \/ nbd_export = "killed") =>
          (dhcp_server = "None" \/ ResponderStopped)
    /\ (srv_pc = "stop_nbd" \/ nbd_export = "killed") => http_server \in {"None", "shut_down"}

\* C14 witness: after an interrupt of the running server all three stop steps
\* have been taken.
C14_Witness ==
    /\ srv_pc = "returned"
    /\ ResponderStopped
    /\ http_server = "shut_down"
    /\ nbd_export = "killed"

\* C15 as stated: every stop step is attempted although an earlier one raised,
\* so when start() has ended with an error after the export was started, the
\* export has been terminated.
C15_Original == (srv_pc = "raised" /\ nbd_export # "never") => nbd_export = "killed"

----------------------------------------------------------------------------
(* The exit status *)

\* A fatal error: no privilege, a missing tool, a missing image, a step of
\* start() that raised, an extraction that raised or was in its except block
FatalFailure ==
    \/ ~is_root
    \/ ~requirements_ok
    \/ ~qcow2_exists
    \/ pending = "Exception"
    \/ ex_pc \in {"raised", "interrupted_in_handler"}

\* The server ran with all its services, was interrupted, and stop() returned
CleanShutdown == srv_pc = "returned" /\ dhcp_server = "started" /\ pending = "none"

\* C16 as stated: the exit status is 0 after an interrupt of a clean run and
\* non-zero whenever a setup or extraction step failed fatally, the image or a
\* required tool is missing, or the process is not root.
C16_Original ==
    exit_code # None =>
        /\ CleanShutdown => exit_code = Some(0)
        /\ FatalFailure => exit_code # Some(0)

\* C17 as stated: the extraction's error leaves the call only from the last
\* step of its cleanup; once it has, no service is or gets started and
\* start() does not return normally.
C17_Original ==
    [][ /\ (ex_pc' = "raised" /\ ex_pc # "raised") => ex_pc = "except_rmdir"
        /\ ex_pc = "raised" =>
              /\ nbd_export' = "never"
              /\ tftp_server' = "None"
              /\ http_server' = "None"
              /\ dhcp_server' = "None"
              /\ srv_pc' # "returned" ]_vars

\* stop() has run to its end
StopCompleted == srv_pc = "returned" \/ (srv_pc = "raised" /\ pending = "Exception")

\* The responder's thread has been started and DHCPServer.start has not ended
ResponderRunning == dhcp_server = "started" /\ dhcp_pc \notin {"returned", "raised"}

\* C18 as stated: once stop() has run to its end, no service that was started
\* is running.
C18_Original ==
    StopCompleted =>
        /\ nbd_export # "running"
        /\ tftp_server # "listening"
        /\ http_server # "serving"
        /\ ~ResponderRunning

----------------------------------------------------------------------------
(* The replies of the responder *)

\* Option areas of well-formed packets whose message type is neither DISCOVER
\* nor REQUEST (INFORM), or is missing
OtherTypeAreas == { <<53, 1, 8, 255>>, <<255>> }

DiscoverPackets == Packets(Ciaddrs, DiscoverAreas)

RequestPackets == Packets(Ciaddrs, RequestAreas)

OtherTypePackets == Packets(Ciaddrs, OtherTypeAreas)

\* Datagrams cut off in the header, with a wrong cookie, or ending in a
\* truncated option
MalformedPackets == BadDatagrams \cup Packets(Ciaddrs, TruncatedDiscoverAreas)

\* C19: a well-formed DISCOVER gets one reply, an OFFER, and a well-formed
\* REQUEST one reply, an ACK, unless sending it fails, which is logged; a
\* well-formed packet of another or no message type gets no reply, logs no
\* error and leaves lease_pool and next_ip as they were.
C19_ReplyType ==
    [][ Handled =>
          /\ rx' \in DiscoverPackets =>
                IF tx' # <<>> THEN ReplyOption(tx', 53) = Some(<<DHCPOFFER>>) ELSE log_error'
          /\ rx' \in RequestPackets =>
                IF tx' # <<>> THEN ReplyOption(tx', 53) = Some(<<DHCPACK>>) ELSE log_error'
          /\ rx' \in OtherTypePackets =>
                /\ tx' = <<>>
                /\ ~log_error'
                /\ lease_pool' = lease_pool
                /\ next_ip' = next_ip ]_vars

\* C19 witness: a REQUEST has been answered with an ACK while leases exist.
C19_Witness ==
    /\ rx \in RequestPackets
    /\ tx # <<>>
    /\ ReplyOption(tx, 53) = Some(<<DHCPACK>>)
    /\ lease_pool # <<>>
    /\ dhcp_pc = "check"

\* C20 as stated: handling a malformed datagram (cut off in the header, with a
\* wrong magic cookie, or with an option area that ends in a truncated option)
\* logs nothing at error level.
C20_Original ==
    [][ (Handled /\ rx' \in MalformedPackets) =>
            ~log_error' ]_vars

----------------------------------------------------------------------------
(* Option parsing *)

\* The datagram has the 240-byte header and the magic cookie
ValidHeader(data) == Len(data) >= 240 /\ Slice(data, 236, 240) = MagicCookie

\* C21 as stated: parsing a datagram with a valid header never fails, also
\* when its option area ends in a truncated option, and returns the options
\* recognised before the end code or the end of the buffer.
C21_Original ==
    (dhcp_pc = "check" /\ rx # <<>> /\ ValidHeader(rx)) =>
        /\ _parse_dhcp_packet(rx).exc = ""
        /\ _parse_dhcp_packet(rx).value # None

----------------------------------------------------------------------------
(* Classification and the boot filename *)

\* DISCOVER and REQUEST option areas of the given client classes
TypedAreas(classes) ==
    { <<53, 1, t>> \o c \o <<255>> : t \in {DHCPDISCOVER, DHCPREQUEST}, c \in classes }

\* Client classes whose vendor-class bytes are absent or do not contain b'PXEClient'
NoMarkerClasses == { <<>>, VendorOther \o <<93, 2, 0, 9>>, VendorPxeNonAscii }

\* Client classes whose vendor class is absent or, decoded as ASCII with the
\* other bytes dropped, does not contain 'PXEClient'
NonPxeClasses == { <<>>, VendorOther \o <<93, 2, 0, 9>> }

NoMarkerPackets == Packets(Ciaddrs, TypedAreas(NoMarkerClasses))

MarkerPackets == Packets(Ciaddrs, TypedAreas(ClassOptions \ NoMarkerClasses))

NonPxePackets == Packets(Ciaddrs, TypedAreas(NonPxeClasses))

PxePackets == Packets(Ciaddrs, TypedAreas(ClassOptions \ NonPxeClasses))

\* The reply carries no boot filename: the header field is zero and option 67
\* has length 0
EmptyBootfile(p) == Slice(p, 108, 236) = Zeros(128) /\ ReplyOption(p, 67) = Some(<<>>)

\* The reply carries a boot filename in the header field and in option 67
NonEmptyBootfile(p) == Byte(p, 108) # 0 /\ ReplyOption(p, 67) \notin {None, Some(<<>>)}

\* C22 as stated: a reply to a request whose vendor-class bytes are absent or
\* do not contain "PXEClient" has an empty boot filename; a reply to one whose
\* vendor-class bytes contain it has a non-empty one.
C22_Original ==
    (dhcp_pc = "check" /\ tx # <<>>) =>
        /\ rx \in NoMarkerPackets => EmptyBootfile(tx)
        /\ rx \in MarkerPackets => NonEmptyBootfile(tx)

\* C22: a reply to a DISCOVER or REQUEST whose vendor class is absent or,
\* decoded as ASCII with the bytes that are not ASCII dropped, does not contain
\* "PXEClient" has an empty boot filename (header field zero, option 67 of
\* length 0) whatever its architecture option; a reply to one whose decoded
\* vendor class contains "PXEClient" has a non-empty boot filename.
C22_BootfileOnlyForPxe ==
    (dhcp_pc = "check" /\ tx # <<>>) =>
        /\ rx \in NonPxePackets => EmptyBootfile(tx)
        /\ rx \in PxePackets => NonEmptyBootfile(tx)

\* C22 witness: a REQUEST of vendor class "udhcp 1" with the 64-bit EFI
\* architecture code has been acknowledged without a boot filename.
C22_Witness ==
    /\ rx \in Packets(Ciaddrs, {<<53, 1, DHCPREQUEST>> \o VendorOther \o <<93, 2, 0, 9>> \o <<255>>})
    /\ tx # <<>>
    /\ EmptyBootfile(tx)
    /\ dhcp_pc = "check"

----------------------------------------------------------------------------
(* The architecture table *)

\* PXE client classes by the option 93 they send
Efi64Classes == { VendorPxe \o <<93, 2, 0, 7>>, VendorPxe \o <<93, 2, 0, 9>>,
                  VendorPxeLonger \o <<93, 2, 0, 7>> }

Efi32Classes == { VendorPxe \o <<93, 2, 0, 6>> }

\* Code 0, no option 93, an option 93 of declared length 1, and the codes
\* 0x000a, 0x000b and 0x0107
LegacyClasses == { VendorPxe \o <<93, 2, 0, 0>>, VendorPxe, VendorPxeNonAscii,
                   VendorPxe \o <<93, 1, 9>>,
                   VendorPxe \o <<93, 2, 0, 10>>, VendorPxe \o <<93, 2, 0, 11>>,
                   VendorPxe \o <<93, 2, 1, 7>> }

Efi64Packets == Packets(Ciaddrs, TypedAreas(Efi64Classes))

Efi32Packets == Packets(Ciaddrs, TypedAreas(Efi32Classes))

LegacyPackets == Packets(Ciaddrs, TypedAreas(LegacyClasses))

\* The reply names `s` in the boot-filename header field and in option 67
Bootfile(p, s) == Slice(p, 108, 236) = FileField(s) /\ ReplyOption(p, 67) = Some(EncodeAscii(s))

\* C23: the reply to a PXE DISCOVER or REQUEST names grubx64.efi for the
\* architecture codes 0x0007 and 0x0009, grubia32.efi for 0x0006, and
\* lpxelinux.0 for code 0x0000, for an absent option 93, for an option 93 of
\* declared length 1 and for every other code (0x000a, 0x000b, 0x0107); the
\* table is the same for both message types.
C23_ArchTable ==
    (dhcp_pc = "check" /\ tx # <<>>) =>
        /\ rx \in Efi64Packets => Bootfile(tx, "grubx64.efi")
        /\ rx \in Efi32Packets => Bootfile(tx, "grubia32.efi")
        /\ rx \in LegacyPackets => Bootfile(tx, "lpxelinux.0")

\* C23 witness: a PXE REQUEST with architecture code 0x0006 has been
\* acknowledged with grubia32.efi.
C23_Witness ==
    /\ rx \in Packets(Ciaddrs, {<<53, 1, DHCPREQUEST>> \o VendorPxe \o <<93, 2, 0, 6>> \o <<255>>})
    /\ tx # <<>>
    /\ ReplyOption(tx, 53) = Some(<<DHCPACK>>)
    /\ Bootfile(tx, "grubia32.efi")
    /\ dhcp_pc = "check"

----------------------------------------------------------------------------
(* The reply's header *)

\* The address the reply hands out: the client's own address in the OFFER for
\* a DISCOVER that carries one, the lease of the hardware address otherwise
AssignedAddress(request, reply) ==
    IF ReplyOption(reply, 53) = Some(<<DHCPOFFER>>) /\ Slice(request, 12, 16) # Zeros(4)
        THEN Some(Slice(request, 12, 16))
    ELSE IF Slice(request, 28, 34) \in DOMAIN lease_pool
        THEN Some(inet_aton(lease_pool[Slice(request, 28, 34)]))
    ELSE None

\* C24: every reply echoes the request it answers. Its transaction id is the
\* request's, its hardware-address field is the request's 6-byte hardware
\* address, its client-address field is zero, its your-address field is the
\* assigned address, its server-address field and its option 54 are the
\* server's address, and its last byte is the end option.
C24_ReplyEchoes ==
    (dhcp_pc = "check" /\ tx # <<>>) =>
        /\ Slice(tx, 4, 8) = Slice(rx, 4, 8)
        /\ Slice(tx, 28, 34) = Slice(rx, 28, 34)
        /\ Slice(tx, 34, 44) = Zeros(10)
        /\ Slice(tx, 12, 16) = Zeros(4)
        /\ Some(Yiaddr(tx)) = AssignedAddress(rx, tx)
        /\ Slice(tx, 20, 24) = inet_aton(SERVER_IP)
        /\ ReplyOption(tx, 54) = Some(inet_aton(SERVER_IP))
        /\ tx[Len(tx)] = 255

\* C24 witness: two clients with different transaction ids hold leases and the
\* second one's REQUEST has been acknowledged with its own id and address.
C24_Witness ==
    /\ dhcp_pc = "check"
    /\ tx # <<>>
    /\ Slice(rx, 4, 8) = XidOf(<<2, 0, 0, 0, 0, 2>>)
    /\ Slice(tx, 4, 8) = XidOf(<<2, 0, 0, 0, 0, 2>>)
    /\ Slice(tx, 28, 34) = <<2, 0, 0, 0, 0, 2>>
    /\ ReplyOption(tx, 53) = Some(<<DHCPACK>>)
    /\ <<2, 0, 0, 0, 0, 1>> \in DOMAIN lease_pool
    /\ Yiaddr(tx) = inet_aton(lease_pool[<<2, 0, 0, 0, 0, 2>>])
    /\ tx[Len(tx)] = 255

----------------------------------------------------------------------------
(* Frame of the lease table and the cursor *)

\* The step handles a datagram for which _allocate_ip is called with a hardware
\* address that has no lease yet
NewAllocation ==
    Handled /\ allocated' # None /\ Slice(rx', 28, 34) \notin DOMAIN lease_pool

\* C25: lease_pool and next_ip change only in a step that allocates for a
\* hardware address without a lease; that step adds exactly the entry of this
\* hardware address and moves next_ip one address forward, back to range_start
\* past range_end. Every other step (an allocation for a known hardware
\* address, a dropped packet, an ignored message type, stop) leaves both
\* unchanged.
C25_LeaseFrame ==
    [][ IF NewAllocation
        THEN LET mac == Slice(rx', 28, 34) IN
             /\ DOMAIN lease_pool' = DOMAIN lease_pool \cup {mac}
             /\ \A m \in DOMAIN lease_pool : lease_pool'[m] = lease_pool[m]
             /\ next_ip' = IF IntGt(IntSucc(next_ip), _ip_to_int(DHCP_RANGE_END))
                                THEN _ip_to_int(DHCP_RANGE_START) ELSE IntSucc(next_ip)
             /\ next_ip' # next_ip
        ELSE lease_pool' = lease_pool /\ next_ip' = next_ip ]_vars

\* C25 witness: two clients hold leases and the first one, already known, has
\* just been answered with its lease.
C25_Witness ==
    /\ dhcp_pc = "check"
    /\ tx # <<>>
    /\ Slice(rx, 28, 34) = <<2, 0, 0, 0, 0, 1>>
    /\ DOMAIN lease_pool = {<<2, 0, 0, 0, 0, 1>>, <<2, 0, 0, 0, 0, 2>>}
    /\ lease_pool[<<2, 0, 0, 0, 0, 1>>] = DHCP_RANGE_START
    /\ lease_pool[<<2, 0, 0, 0, 0, 2>>] # DHCP_RANGE_START
    /\ allocated = Some(DHCP_RANGE_START)

----------------------------------------------------------------------------
(* The responder's task *)

\* Reply `p` answers datagram `d`: same transaction id and hardware address
Answers(p, d) == Slice(p, 4, 8) = Slice(d, 4, 8) /\ Slice(p, 28, 34) = Slice(d, 28, 34)

\* The i-th recvfrom returned the i-th datagram that arrived, and a reply it
\* sent answers that datagram
InArrivalOrder ==
    /\ Len(sent) <= Len(arrived)
    /\ \A i \in 1..Len(sent) : sent[i] # <<>> => Answers(sent[i], arrived[i])
    /\ (dhcp_pc = "check" /\ rx # <<>>) =>
          /\ Len(sent) > 0
          /\ rx = arrived[Len(sent)]
          /\ tx = sent[Len(sent)]

\* C26: under the orchestrator, packets are handled one at a time in arrival
\* order. Each recvfrom returns the oldest datagram not yet handled and its
\* reply is sent in the same iteration, before the next recvfrom, so replies
\* leave in the order of their requests; and lease_pool and next_ip change
\* only in an iteration of the responder's loop, a step in which the
\* orchestrator and DHCPServer.stop do nothing, also while services are
\* being started or stopped.
C26_SingleResponder ==
    [][ /\ InArrivalOrder'
        /\ (lease_pool' # lease_pool \/ next_ip' # next_ip) =>
              /\ dhcp_pc = "recv" /\ dhcp_pc' = "check"
              /\ sent' = Append(sent, tx')
              /\ UNCHANGED <<main_pc, srv_pc, stop_pc, pending, srvServices, exVars>>
        /\ sent' # sent => (dhcp_pc = "recv" /\ dhcp_pc' = "check" /\ Len(sent') = Len(sent) + 1) ]_vars

\* C26 witness: two clients' datagrams were queued, both have been answered in
\* the order they arrived, and the orchestrator is stopping the services.
C26_Witness ==
    /\ Len(arrived) = 2
    /\ Len(sent) = 2
    /\ Slice(arrived[1], 28, 34) # Slice(arrived[2], 28, 34)
    /\ sent[1] # <<>> /\ Answers(sent[1], arrived[1])
    /\ sent[2] # <<>> /\ Answers(sent[2], arrived[2])
    /\ DOMAIN lease_pool = {<<2, 0, 0, 0, 0, 1>>, <<2, 0, 0, 0, 0, 2>>}
    /\ srv_pc \in StopPositions

----------------------------------------------------------------------------
(* Cancellation of the responder *)

\* C27 as stated, its safety half: for every interleaving of DHCPServer.stop
\* with DHCPServer.start, once stop has run to its end the receive loop sends
\* no further reply.
C27_Original ==
    [][ stop_pc = "done" => ~(Handled /\ tx' # <<>>) ]_vars

----------------------------------------------------------------------------
(* The LVM probe *)

\* C28 as stated: LVM is probed unconditionally. In every extraction in which
\* the image was attached, the step that reads the partition table is followed
\* by the volume-group scan, also when it lists no partition and no numbered
\* device node exists.
C28_Original ==
    [][ (ex_pc = "fdisk" /\ nbd_attached /\ ex_pc' \notin Interrupted) => ex_pc' = "vgscan" ]_vars

----------------------------------------------------------------------------
(* Candidate selection *)

\* The positions of the call at which the candidate list is complete and the
\* candidate loop runs or has chosen
LoopPositions == {"probe", "copy_kernel", "copy_initrd"}

\* The candidate can be mounted: its node exists, it is not swap, mount succeeds
Mountable(c) == NodeExists(c) /\ c.fs.type # "swap" /\ c.fs.mountable

\* The mounted candidate exposes a boot directory or a top-level vmlinuz-* file
HasBoot(c) == c.fs.boot \/ c.fs.files \cap {"vmlinuz-5.14", "vmlinuz-6.1"} # {}

\* The index of a device in the candidate list
IndexOf(dev) == CHOOSE j \in 1..Len(partitions) : partitions[j].dev = dev

\* Every logical volume precedes every raw partition in the candidate list
LvsFirst ==
    \A i, j \in 1..Len(partitions) :
        (partitions[i].dev[1] = "p" /\ partitions[j].dev[1] = "lv") => j < i

\* While the loop runs, logical volumes come first and whatever is mounted is
\* a candidate already tried that is not swap
MountedAreTried ==
    ex_pc \in LoopPositions =>
        /\ LvsFirst
        /\ \A k \in 1..Len(mounts) :
              /\ \E j \in 1..Len(partitions) : partitions[j].dev = mounts[k]
              /\ partitions[IndexOf(mounts[k])].fs.type # "swap"
              /\ IndexOf(mounts[k]) <= idx

\* The boot source is the first candidate that can be mounted and has boot files
ChosenIsFirst ==
    /\ ex_pc \in {"copy_kernel", "copy_initrd"} =>
          /\ mounted_partition = Some(partitions[idx].dev)
          /\ Mountable(partitions[idx]) /\ HasBoot(partitions[idx])
          /\ \A j \in 1..(idx - 1) : ~(Mountable(partitions[j]) /\ HasBoot(partitions[j]))
    /\ ex_pc = "returned" => mounted_partition # None

\* What holds of the candidate loop whether or not an umount fails
SelectionRules ==
    /\ MountedAreTried'
    /\ ChosenIsFirst'
    /\ (ex_pc = "mkdir" /\ ex_pc' = "probe") => idx' = 1
    /\ (ex_pc = "probe" /\ ex_pc' = "probe") => idx' = idx + 1
    /\ (ex_pc = "probe" /\ idx <= Len(partitions) /\ ex_pc' \notin Interrupted) =>
          LET c == partitions[idx] IN
          /\ (ex_pc' = "copy_kernel") <=> (Mountable(c) /\ HasBoot(c))
          /\ ex_pc' = "copy_kernel" =>
                /\ mounts' = Append(mounts, c.dev)
                /\ mounted_partition' = Some(c.dev)
                /\ idx' = idx
          /\ ~Mountable(c) => mounts' = mounts
    /\ (ex_pc = "probe" /\ idx > Len(partitions) /\ ex_pc' \notin Interrupted) =>
          /\ ex_pc' \in HandlerPositions
          /\ mounted_partition' = None

\* C29 as stated: candidates are tried in order, logical volumes first; swap
\* is never mounted; a failed mount is skipped; a mounted candidate is
\* accepted iff it has a boot directory or a top-level vmlinuz-* file, and
\* otherwise it is unmounted before the next one is tried; the first accepted
\* candidate is the boot source and no later one is mounted; with none
\* accepted the extraction fails.
C29_Original ==
    [][ /\ SelectionRules
        /\ (ex_pc = "probe" /\ ex_pc' = "probe") => mounts' = mounts ]_vars

\* C29: as stated, except that the unmount of a rejected candidate is only
\* attempted: its exit status is ignored, and when it fails the candidate is
\* still mounted while the next one is tried.
C29_CandidateSelection ==
    [][ /\ SelectionRules
        /\ (ex_pc = "probe" /\ ex_pc' = "probe") =>
              \/ mounts' = mounts
              \/ /\ mounts' = Append(mounts, partitions[idx].dev)
                 /\ "umount_probe" \in failed' ]_vars

\* C29 witness: the first candidate, a logical volume without boot files, was
\* mounted, rejected and unmounted, and the second candidate, a raw partition,
\* is the boot source.
C29_Witness ==
    /\ ex_pc = "copy_kernel"
    /\ idx = 2
    /\ partitions[1].dev[1] = "lv"
    /\ partitions[1].fs = FsData
    /\ partitions[2].dev[1] = "p"
    /\ vg_active
    /\ mounts = <<partitions[2].dev>>
    /\ mounted_partition = Some(partitions[2].dev)

----------------------------------------------------------------------------
(* The files copied from the boot source *)

\* The kernel images of the directory searched: the versioned names, or the
\* unversioned one when there is no versioned name
KernelMatches(files) ==
    IF files \cap {"vmlinuz-5.14", "vmlinuz-6.1"} # {}
        THEN files \cap {"vmlinuz-5.14", "vmlinuz-6.1"}
        ELSE files \cap {"vmlinuz"}

\* The initramfs images of the directory searched, whatever pattern they match
InitrdMatches(files) ==
    files \cap {"initramfs-5.14.img", "initramfs-6.1.img", "initrd.img-6.1", "initrd-6.1"}

\* `name` is the last of `matches` in sorted order
Greatest(name, matches) == name \in matches /\ \A g \in matches : SortKey(g) <= SortKey(name)

----------------------------------------------------------------------------
(* Deactivation of volume groups *)

\* The step runs vgchange -an, on the success path or in the except block
DeactivationStep ==
    \/ ex_pc = "vgchange_an" /\ lvm_detected /\ ex_pc' = "disconnect"
    \/ ex_pc = "except_vgchange" /\ ex_pc' = "except_disconnect"

\* C31 as stated: vgchange -an is run only by a call that has activated a
\* volume group, which is then still active; and when the call ends, by return
\* or by raise, a volume group it activated is active only if the vgchange -an
\* that was run failed.
C31_Original ==
    [][ /\ DeactivationStep => vg_active
        /\ (ex_pc \in {"returned", "raised"})' => (vg_active' => vgan_rc' = "failed") ]_vars

----------------------------------------------------------------------------
(* Failures of the cleanup on the success path *)

\* The kernel and the initramfs have been copied and the call is at one of
\* its final cleanup commands
CleanupPositions == {"umount", "vgchange_an", "disconnect"}

\* C32 as stated: once the kernel and the initramfs have both been copied, a
\* failure of the final unmount, of the deactivation or of the detach is not
\* escalated: no cleanup step sends the call to its except block, from which
\* it raises.
C32_Original ==
    [][ (ex_pc \in CleanupPositions /\ ex_pc' \notin Interrupted) =>
            ex_pc' \notin HandlerPositions ]_vars

----------------------------------------------------------------------------
(* The cursor and the lease table *)

\* C33: in every state of the responder, after any sequence of packets, the
\* cursor next_ip lies in [range_start, range_end].
C33_CursorInRange ==
    /\ ~IntGt(_ip_to_int(DHCP_RANGE_START), next_ip)
    /\ ~IntGt(next_ip, _ip_to_int(DHCP_RANGE_END))

\* C33 witness: every address of the range has been handed out once, the last
\* allocation returned range_end and the cursor is back at range_start.
C33_Witness ==
    /\ Cardinality(DOMAIN lease_pool) = PoolSize
    /\ allocated = Some(DHCP_RANGE_END)
    /\ next_ip = _ip_to_int(DHCP_RANGE_START)
    /\ dhcp_pc = "check"

\* C34 as stated: no two distinct hardware addresses of lease_pool hold the
\* same address.
C34_Original ==
    \A m1, m2 \in DOMAIN lease_pool : lease_pool[m1] = lease_pool[m2] => m1 = m2

\* C34: as long as lease_pool holds no more hardware addresses than the range
\* has addresses, no two of them hold the same address; once it holds more,
\* after the wrap, two of them do.
C34_DistinctUntilWrap ==
    (Cardinality(DOMAIN lease_pool) <= PoolSize) <=>
        (\A m1, m2 \in DOMAIN lease_pool : lease_pool[m1] = lease_pool[m2] => m1 = m2)

\* C34 witness: the range is used up, one hardware address per address.
C34_Witness ==
    /\ Cardinality(DOMAIN lease_pool) = PoolSize
    /\ Cardinality({lease_pool[m] : m \in DOMAIN lease_pool}) = PoolSize
    /\ allocated # None

----------------------------------------------------------------------------
(* OFFER and ACK of one client *)

\* C35 as stated: among the replies the running server has sent, an ACK for a
\* hardware address carries the address of every OFFER sent before it for
\* that hardware address, whatever the client-address fields of the DISCOVER
\* and REQUEST were.
C35_Original ==
    \A i, j \in 1..Len(sent) :
        ( /\ i < j
          /\ sent[i] # <<>> /\ sent[j] # <<>>
          /\ ReplyOption(sent[i], 53) = Some(<<DHCPOFFER>>)
          /\ ReplyOption(sent[j], 53) = Some(<<DHCPACK>>)
          /\ Slice(sent[i], 28, 34) = Slice(sent[j], 28, 34) )
        => Yiaddr(sent[i]) = Yiaddr(sent[j])

----------------------------------------------------------------------------
(* The served files after a failed extraction *)

\* C36 as stated: when extract_kernel_initrd has failed, vmlinuz and
\* initrd.img of the TFTP root are what they were before the call.
C36_Original ==
    ex_pc = "raised" => (tftp_vmlinuz = OldFile /\ tftp_initrd = OldFile)

----------------------------------------------------------------------------
(* Images with a usable candidate *)

\* The directory searched on the candidate holds a kernel and an initramfs
HasBootFiles(c) == KernelMatches(c.fs.files) # {} /\ InitrdMatches(c.fs.files) # {}

\* The step leaves the search or a copy for the except block
SearchFails == ex_pc \in LoopPositions /\ ex_pc' \in HandlerPositions

\* The step is a cp that failed: there was a match and the file is not written
CopyFailed ==
    \/ /\ ex_pc = "copy_kernel"
       /\ KernelMatches(partitions[idx].fs.files) # {}
       /\ tftp_vmlinuz' = tftp_vmlinuz
    \/ /\ ex_pc = "copy_initrd"
       /\ InitrdMatches(partitions[idx].fs.files) # {}
       /\ tftp_initrd' = tftp_initrd

\* C37 as stated: when some mountable candidate that is not swap holds a
\* kernel and an initramfs, the search and the copies do not fail (unless a
\* cp fails), whatever the other candidates hold and whatever their order.
C37_Original ==
    [][ (SearchFails /\ \E j \in 1..Len(partitions) :
                           Mountable(partitions[j]) /\ HasBootFiles(partitions[j]))
            => CopyFailed ]_vars

----------------------------------------------------------------------------
(* pycomms: main_server                                                    *)

NUM_OUTPUTS_TO_IGNORE == 2

\* json.dumps(["status"]), what the client sends for `pycomms.py status`
StatusCommand == <<"status">>

\* json.dumps(collect_status()) + newline on server s
StatusOf(s) == <<"status_of", s>>

\* What the client sends for a command no server knows
UnknownCommand == <<"reboot">>

\* json.dumps({'error': ...}) + newline: for a list the message of do_cmd's
\* else branch; anything that is not a list (a reply is a JSON object) has no
\* casefold and the traceback of the AttributeError is reported
ErrorOf(cmd) == IF cmd = UnknownCommand THEN <<"error", "Unknown command">> ELSE <<"error", "traceback">>

\* do_cmd on the decrypted, parsed command, and the payload made of its result
Payload(s, cmd) == IF cmd = StatusCommand THEN StatusOf(s) ELSE ErrorOf(cmd)

\* fernet.encrypt: the token carries a fresh initialisation vector, so no two
\* calls give the same bytes; `who` and `k` stand for the vector
Encrypt(who, k, text) == [iv |-> <<who, k>>, text |-> text]

\* fernet.decrypt with the shared key
Decrypt(data) == data.text

\* sendto the group: the datagram is queued at every member, the sender included
Multicast(q, who, data) == [s \in Servers |-> Append(q[s], [src |-> who, data |-> data])]

InList(x, list) == \E i \in 1..Len(list) : list[i] = x

\* The client multicasts a command
CommsClientSend(cmd) ==
    /\ n_cmds < MaxCommands
    /\ n_cmds' = n_cmds + 1
    /\ cq' = Multicast(cq, "client", Encrypt("client", n_cmds, cmd))
    /\ UNCHANGED <<ignore, n_sent, c_last, dhcpVars, exVars, srvVars>>

\* One iteration of the loop of main_server on server s: trim the ignore
\* list, recvfrom, skip a listed datagram, else run the command and multicast
\* the encrypted reply
CommsIterate(s) ==
    /\ cq[s] # <<>>
    /\ LET our_outputs_to_ignore ==
               IF Len(ignore[s]) > NUM_OUTPUTS_TO_IGNORE THEN Tail(ignore[s]) ELSE ignore[s]
           d          == Head(cq[s])
           rest       == [cq EXCEPT ![s] = Tail(cq[s])]
           ciphertext == Encrypt(s, n_sent[s], Payload(s, Decrypt(d.data)))
       IN IF InList(d.data, our_outputs_to_ignore)
          THEN /\ ignore' = [ignore EXCEPT ![s] = our_outputs_to_ignore]
               /\ cq' = rest
               /\ c_last' = Some([server |-> s, src |-> d.src, replied |-> FALSE])
               /\ UNCHANGED n_sent
          ELSE /\ n_sent[s] < MaxReplies
               /\ ignore' = [ignore EXCEPT ![s] = Append(our_outputs_to_ignore, ciphertext)]
               /\ cq' = Multicast(rest, s, ciphertext)
               /\ n_sent' = [n_sent EXCEPT ![s] = n_sent[s] + 1]
               /\ c_last' = Some([server |-> s, src |-> d.src, replied |-> TRUE])
    /\ UNCHANGED <<n_cmds, dhcpVars, exVars, srvVars>>

InitComms == Init

NextComms ==
    \/ \E cmd \in {StatusCommand, UnknownCommand} : CommsClientSend(cmd)
    \/ \E s \in Servers : CommsIterate(s)

SpecComms == InitComms /\ [][NextComms]_vars

\* C38 as stated: a server never answers a datagram it sent itself; each
\* looped-back copy of its own replies is skipped.
C38_Original ==
    c_last # None => (c_last[1].src = c_last[1].server => ~c_last[1].replied)

\* C39 as stated, its safety half: with two servers in the group and one
\* client command, every server sends at most one reply and no server
\* answers another server's reply.
C39_Original ==
    n_cmds <= 1 =>
        /\ \A s \in Servers : n_sent[s] <= 1
        /\ c_last # None =>
              ((c_last[1].src \in Servers /\ c_last[1].src # c_last[1].server) => ~c_last[1].replied)

====
